---- MODULE Spec2Model ----
(***************************************************************************)
(* A model of JoSon: the Doc tagged union with its owned containers        *)
(* (DocArr, DocTuple, DictObj), the iterative parser string_to_doc and the *)
(* iterative renderer Doc::str.                                            *)
(*                                                                         *)
(* Containers live in `heap`; a Doc of a container kind holds the address  *)
(* of its container, exactly as the std::variant holds a raw pointer.      *)
(* Text is a sequence of one-character strings, indexed from 0 as in C.    *)
(***************************************************************************)
EXTENDS Integers, Sequences, FiniteSets, TLC

VARIABLES
    heap,     \* the containers allocated so far; address = index
    oob,      \* TRUE once any access outside a buffer has happened
    input,    \* string_to_doc: the text being parsed
    pc,       \* string_to_doc: "start", "loop", "final", "done", "abort", or "idle"
    count,    \* string_to_doc: the cursor
    ge_stk,   \* string_to_doc: the stack of open frames (Docs)
    res,      \* string_to_doc: the returned Doc
    docs,     \* the client's Doc variables, by name
    last,     \* the outcome of the client's last call
    visualize, \* Doc::str: the argument of the call
    doc_stk,  \* Doc::str: the stack of (Doc, prefix, level) still to render
    char_stk, \* Doc::str: the stack of closing brackets owed
    result,   \* Doc::str: the text built so far
    show_bar, \* string_to_doc: the argument show_bar of the call
    percentage \* ProgressBar: the percentage last displayed

vars == <<heap, oob, input, pc, count, ge_stk, res, docs, last,
          visualize, doc_stk, char_stk, result, show_bar, percentage>>

\* the argument and the ProgressBar of string_to_doc
barVars == <<show_bar, percentage>>

\* the locals of Doc::str
strVars == <<visualize, doc_stk, char_stk, result>>

\* what string_to_doc leaves alone
notParse == <<docs, last, strVars, barVars>>

----------------------------------------------------------------------------
(* Bounds of the model *)

MaxFrags == 3
MaxBody == 3
MaxEntries == 2
MaxObjs == 2
MaxElems == 2
MaxCap == 2
MaxInner == 2
MaxWrap == 2
MaxOverread == 1

----------------------------------------------------------------------------
(* Characters *)

NUL == "NUL"
QUOTE == "\""
WS == {" ", "\n", "\t", "\r"}
DigitChars == <<"0", "1", "2", "3", "4", "5", "6", "7", "8", "9">>
DigitSet == {DigitChars[i] : i \in 1..10}
DigitVal(c) == (CHOOSE i \in 1..10 : DigitChars[i] = c) - 1

\* input[i] of a C string: index Len is the terminating NUL
CharAt(inp, i) == IF i < Len(inp) THEN inp[i + 1] ELSE NUL

\* the characters at the 0-based indexes lo .. hi-1
Slice(inp, lo, hi) == SubSeq(inp, lo + 1, hi)

----------------------------------------------------------------------------
(* Doc: the kind tag t and the variant (active alternative alt, payload).  *)
(* n holds an int, a bool (0/1), a sign or an address; s holds a string or *)
(* the decimal digits of a wide number; e holds a decimal exponent.        *)

Types == {"Char", "Int", "LLong", "Float", "Double", "LDouble", "Bool", "Str",
          "Nullptr", "Tuple", "Array", "Dict"}

AltOf(t) ==
    CASE t = "Char" -> "char"
      [] t = "Int" -> "int"
      [] t = "LLong" -> "long long"
      [] t = "Float" -> "float"
      [] t = "Double" -> "double"
      [] t = "LDouble" -> "long double"
      [] t = "Bool" -> "bool"
      [] t = "Str" -> "const char*"
      [] t = "Nullptr" -> "nullptr_t"
      [] t = "Tuple" -> "DocTuple*"
      [] t = "Array" -> "DocArr*"
      [] t = "Dict" -> "DictObj*"

MkDoc(t, alt, n, s, e) == [t |-> t, alt |-> alt, n |-> n, s |-> s, e |-> e]

DocNull == MkDoc("Nullptr", "nullptr_t", 0, <<>>, 0)
DocInt(v) == MkDoc("Int", "int", v, <<>>, 0)
DocChar(v) == MkDoc("Char", "char", v, <<>>, 0)
DocBool(b) == MkDoc("Bool", "bool", IF b THEN 1 ELSE 0, <<>>, 0)
DocStr(s) == MkDoc("Str", "const char*", 0, s, 0)
DocLLong(sign, digits) == MkDoc("LLong", "long long", sign, digits, 0)
DocDouble(sign, digits, e) == MkDoc("Double", "double", sign, digits, e)
DocPtr(t, addr) == MkDoc(t, AltOf(t), addr, <<>>, 0)

IsContainer(d) == d.t \in {"Tuple", "Array", "Dict"}

----------------------------------------------------------------------------
(* Containers *)

EmptyMap == [k \in {} |-> DocNull]

\* a key of DictObj is a const char*: the pointer p and the text s it points to
Key(p, s) == [p |-> p, s |-> s]

Obj(kind, buf, s, cap, m, nul) ==
    [kind |-> kind, buf |-> buf, s |-> s, cap |-> cap, m |-> m, nul |-> nul]

\* DocArr(size_t capacity): new Doc[capacity], every slot a default (null) Doc
NewArrCap(capacity) ==
    Obj("Array", [i \in 1..capacity |-> DocNull], 0, capacity, EmptyMap, FALSE)

DefaultCap == 8

\* DocArr()
NewArr == NewArrCap(DefaultCap)

\* new DictObj
NewDict == Obj("Dict", <<>>, 0, 0, EmptyMap, FALSE)

\* DocTuple(): tpl = nullptr, s = 0
NewTuple == Obj("Tuple", <<>>, 0, 0, EmptyMap, TRUE)

\* DocArr::full
Full(o) == o.s = o.cap

\* Doc::delete_var: var = nullptr for the pointer-holding kinds, t unchanged.
\* The pointer handed to delete is read back from the variant after var was
\* set to nullptr, so it is null and the container stays allocated.
DeleteVar(d) ==
    IF d.t \in {"Array", "Tuple", "Dict", "Str"}
    THEN [d EXCEPT !.alt = "nullptr_t", !.n = 0, !.s = <<>>]
    ELSE d

\* a variant of DocAssign that gives the destination a container of its own
\* (address 0 stands for the copy) instead of the source's pointer
DocAssignDetached(self, other) ==
    [t |-> other.t, alt |-> other.alt, n |-> IF IsContainer(other) THEN 0 ELSE other.n,
     s |-> other.s, e |-> other.e]

\* Doc::operator= (and the implicit copy constructor): t and var are copied
\* member by member, so a container pointer is copied, not the container
DocAssign(self, other) ==
    LET d == DeleteVar(self)
    IN [d EXCEPT !.t = other.t, !.alt = other.alt, !.n = other.n,
                 !.s = other.s, !.e = other.e]

\* the buffer new Doc[cap2] after std::copy(arr, arr + s, new_arr)
Regrown(o, cap2) == [i \in 1..cap2 |-> IF i <= o.s THEN o.buf[i] ELSE DocNull]

\* buf[i] = doc (0-based i); a write at an index >= the length is outside the buffer
BufWrite(buf, i, doc) ==
    IF i < Len(buf) THEN [buf EXCEPT ![i + 1] = DocAssign(@, doc)] ELSE buf

\* an emplace_back that grows a full array by eight slots
ArrEmplaceBackLinear(o, doc) ==
    IF ~Full(o)
    THEN [o |-> [o EXCEPT !.buf = BufWrite(@, o.s, doc), !.s = o.s + 1],
          oob |-> FALSE]
    ELSE [o |-> [o EXCEPT !.buf = BufWrite(Regrown(o, o.cap + 8), o.s, doc),
                          !.s = o.s + 1, !.cap = o.cap + 8],
          oob |-> ~(o.s < o.cap + 8)]

\* DocArr::emplace_back
ArrEmplaceBack(o, doc) ==
    IF ~Full(o)
    THEN [o |-> [o EXCEPT !.buf = BufWrite(@, o.s, doc), !.s = o.s + 1],
          oob |-> FALSE]
    ELSE [o |-> [o EXCEPT !.buf = BufWrite(Regrown(o, o.cap * 2), o.s, doc),
                          !.s = o.s + 1, !.cap = o.cap * 2],
          oob |-> ~(o.s < o.cap * 2)]

\* (*map)[key] = doc on a DictObj: keys are compared as pointers
MapSet(m, k, doc) ==
    [x \in (DOMAIN m) \cup {k} |->
        IF x = k THEN DocAssign(IF k \in DOMAIN m THEN m[k] ELSE DocNull, doc) ELSE m[x]]

\* Doc::upsert: ok = FALSE stands for the thrown runtime_error
DocUpsert(h, d, k, doc) ==
    IF d.t = "Dict" /\ d.alt = "DictObj*"
    THEN [ok |-> TRUE, heap |-> [h EXCEPT ![d.n].m = MapSet(@, k, doc)], oob |-> FALSE]
    ELSE [ok |-> FALSE, heap |-> h, oob |-> FALSE]

\* Doc::emplace_back
DocEmplaceBack(h, d, doc) ==
    IF d.t = "Array" /\ d.alt = "DocArr*"
    THEN LET r == ArrEmplaceBack(h[d.n], doc)
         IN [ok |-> TRUE, heap |-> [h EXCEPT ![d.n] = r.o], oob |-> r.oob]
    ELSE [ok |-> FALSE, heap |-> h, oob |-> FALSE]

\* Doc(Type type) for a container type: the new heap and the Doc pointing in
AllocDoc(h, t) ==
    LET o == CASE t = "Array" -> NewArr
               [] t = "Dict" -> NewDict
               [] t = "Tuple" -> NewTuple
    IN [heap |-> Append(h, o), doc |-> DocPtr(t, Len(h) + 1)]

----------------------------------------------------------------------------
(* string_to_prim_doc *)

\* a variant of StartsWith that compares the first character only
StartsWithFirst(inp, pos, kw) == CharAt(inp, pos) = kw[1]

\* strncmp(input + pos, kw, Len(kw)) == 0
StartsWith(inp, pos, kw) ==
    \A i \in 1..Len(kw) : CharAt(inp, pos + i - 1) = kw[i]

\* digits of a non-negative number, most significant first; zero is <<>>
RECURSIVE ToDigits(_)
ToDigits(v) == IF v = 0 THEN <<>> ELSE Append(ToDigits(v \div 10), DigitChars[(v % 10) + 1])

\* v * 10 + d on a digit sequence
Mul10Add(ds, d) == IF ds = <<>> /\ d = 0 THEN <<>> ELSE Append(ds, DigitChars[d + 1])

\* 2^53, up to which every integer is a double
TwoTo53 == <<"9", "0", "0", "7", "1", "9", "9", "2", "5", "4", "7", "4", "0", "9", "9", "2">>

\* a <= b for digit sequences without leading zeros
RECURSIVE LexLeq(_, _)
LexLeq(a, b) ==
    IF a = <<>> THEN TRUE
    ELSE IF a[1] # b[1] THEN DigitVal(a[1]) < DigitVal(b[1])
    ELSE LexLeq(Tail(a), Tail(b))

AtMost(a, b) == Len(a) < Len(b) \/ (Len(a) = Len(b) /\ LexLeq(a, b))

IsOdd(ds) == ds # <<>> /\ DigitVal(ds[Len(ds)]) % 2 = 1

\* v - 1 for an odd v
OddPred(ds) == [ds EXCEPT ![Len(ds)] = DigitChars[DigitVal(@)]]

\* v + 1
RECURSIVE Succ(_)
Succ(ds) ==
    IF ds = <<>> THEN <<"1">>
    ELSE IF ds[Len(ds)] = "9" THEN Append(Succ(SubSeq(ds, 1, Len(ds) - 1)), "0")
    ELSE [ds EXCEPT ![Len(ds)] = DigitChars[DigitVal(@) + 2]]

DivisibleBy4(ds) ==
    (10 * (IF Len(ds) > 1 THEN DigitVal(ds[Len(ds) - 1]) ELSE 0) + DigitVal(ds[Len(ds)])) % 4 = 0

\* a cast that keeps every digit
ToDoubleExact(ds) == ds

\* static_cast<double>(long_val) for a value of at most 16 digits: the value
\* itself up to 2^53; above, where the doubles are the even integers, an odd
\* value goes to the neighbour whose mantissa is even
ToDouble(ds) ==
    IF AtMost(ds, TwoTo53) \/ ~IsOdd(ds) THEN ds
    ELSE IF DivisibleBy4(OddPred(ds)) THEN OddPred(ds)
    ELSE Succ(ds)

\* a variant of WidenToLLong that switches one digit early
WidenToLLongEarly(st) ==
    IF st.t = "Int" /\ st.len = 8
    THEN [st EXCEPT !.t = "LLong", !.long_val = ToDigits(st.int_val)]
    ELSE st

\* "Switch to long_long if the number is too long for int"
WidenToLLong(st) ==
    IF st.t = "Int" /\ st.len = 9
    THEN [st EXCEPT !.t = "LLong", !.long_val = ToDigits(st.int_val)]
    ELSE st

\* a variant of WidenToDouble that switches one digit late
WidenToDoubleLate(st) ==
    IF st.t = "LLong" /\ st.len = 17
    THEN [st EXCEPT !.t = "Double", !.decimal = ToDouble(st.long_val)]
    ELSE st

\* "Switch to double if the number is too long for long"
WidenToDouble(st) ==
    IF st.t = "LLong" /\ st.len = 16
    THEN [st EXCEPT !.t = "Double", !.decimal = ToDouble(st.long_val)]
    ELSE st

CountFraction(st) == IF st.has_point THEN [st EXCEPT !.floating = @ + 1] ELSE st

\* val *= 10; val += digit, on the accumulator of the current type
Accumulate(st, d) ==
    IF st.t = "Int" THEN [st EXCEPT !.int_val = @ * 10 + d, !.len = @ + 1, !.pos = @ + 1]
    ELSE IF st.t = "LLong"
    THEN [st EXCEPT !.long_val = Mul10Add(@, d), !.len = @ + 1, !.pos = @ + 1]
    ELSE [st EXCEPT !.decimal = Mul10Add(@, d), !.len = @ + 1, !.pos = @ + 1]

\* the first '.' of a literal
SeePoint(st) ==
    [st EXCEPT !.has_point = TRUE,
               !.decimal = IF st.t = "Int" THEN ToDigits(st.int_val)
                           ELSE IF st.t = "LLong" THEN ToDouble(st.long_val)
                           ELSE @,
               !.t = "Double",
               !.pos = @ + 1]

\* the digit loop
RECURSIVE ReadDigits(_, _)
ReadDigits(inp, st) ==
    IF CharAt(inp, st.pos) = "."
    THEN IF st.has_point THEN [st EXCEPT !.ret_null = TRUE]
         ELSE ReadDigits(inp, SeePoint(st))
    ELSE IF CharAt(inp, st.pos) \in DigitSet
    THEN ReadDigits(inp, Accumulate(CountFraction(WidenToDouble(WidenToLLong(st))),
                                    DigitVal(CharAt(inp, st.pos))))
    ELSE st

\* the exponent digits: the value read and the position after them
RECURSIVE ReadExp(_, _, _)
ReadExp(inp, pos, acc) ==
    IF CharAt(inp, pos) \in DigitSet
    THEN ReadExp(inp, pos + 1, acc * 10 + DigitVal(CharAt(inp, pos)))
    ELSE [exp |-> acc, pos |-> pos]

\* "the format is not respected, read to the end"
RECURSIVE SkipToDelim(_, _, _)
SkipToDelim(inp, pos, fin) ==
    IF CharAt(inp, pos) # NUL /\ CharAt(inp, pos) # "," /\ CharAt(inp, pos) # fin
    THEN SkipToDelim(inp, pos + 1, fin) ELSE pos

\* index of the first '"' at or after pos, or -1 when the text holds none
RECURSIVE FindQuote(_, _)
FindQuote(inp, pos) ==
    IF pos >= Len(inp) THEN -1
    ELSE IF inp[pos + 1] = QUOTE THEN pos ELSE FindQuote(inp, pos + 1)

PrimResult(doc, pos, ub) == [doc |-> doc, pos |-> pos, ub |-> ub]

\* the state of the numeric scan after the sign and a leading '.'
NumStart(sign, lead, pos) ==
    [sign |-> sign, t |-> IF lead THEN "Double" ELSE "Int", int_val |-> 0,
     long_val |-> <<>>, decimal |-> <<>>, floating |-> 0, len |-> 0,
     has_point |-> lead, pos |-> IF lead THEN pos + 1 ELSE pos,
     ret_null |-> FALSE, e |-> 0]

AfterSign(inp, pos) ==
    IF CharAt(inp, pos) = "-" \/ CharAt(inp, pos) = "+" THEN pos + 1 ELSE pos

\* decimal *= pow(10.0, -floating)
ScaleFraction(st) == [st EXCEPT !.e = 0 - st.floating]

\* the exponent part, rx being the exponent digits read after the sign
ApplyExp(st, e_sign, rx) ==
    [st EXCEPT !.decimal = IF st.t = "Int" THEN ToDigits(st.int_val)
                           ELSE IF st.t = "LLong" THEN ToDouble(st.long_val)
                           ELSE @,
               !.e = (IF st.t = "Double" THEN @ ELSE 0)
                     + (IF e_sign THEN rx.exp ELSE 0 - rx.exp),
               !.t = "Double",
               !.pos = rx.pos]

ExpStart(inp, pos) ==
    IF CharAt(inp, pos + 1) = "+" \/ CharAt(inp, pos + 1) = "-" THEN pos + 2 ELSE pos + 1

ReadExponent(inp, st) ==
    IF ~st.ret_null /\ (CharAt(inp, st.pos) = "e" \/ CharAt(inp, st.pos) = "E")
    THEN ApplyExp(st, CharAt(inp, st.pos + 1) # "-", ReadExp(inp, ExpStart(inp, st.pos), 0))
    ELSE st

\* the numeric branch up to the terminator test
ScanNumber(inp, pos) ==
    ReadExponent(inp,
        ScaleFraction(
            ReadDigits(inp, NumStart(CharAt(inp, pos) # "-",
                                     CharAt(inp, AfterSign(inp, pos)) = ".",
                                     AfterSign(inp, pos)))))

IsNumEnd(c, fin) ==
    c = NUL \/ c = " " \/ c = "," \/ c = "\t" \/ c = "\n" \/ c = "\r" \/ c = fin

\* "All characters parsed successfully": the Doc of the inferred type
NumDoc(st) ==
    IF st.t = "Int" THEN DocInt(IF st.sign THEN st.int_val ELSE 0 - st.int_val)
    ELSE IF st.t = "LLong" THEN DocLLong(IF st.sign THEN 1 ELSE -1, st.long_val)
    ELSE DocDouble(IF st.sign THEN 1 ELSE -1, st.decimal, st.e)

NumOutcome(inp, st, fin) ==
    IF st.ret_null THEN PrimResult(DocNull, st.pos, "none")
    ELSE IF IsNumEnd(CharAt(inp, st.pos), fin) THEN PrimResult(NumDoc(st), st.pos, "none")
    ELSE PrimResult(DocNull, SkipToDelim(inp, st.pos, fin), "none")

\* the string branch, q being the index of the closing quote or -1.  With no
\* closing quote the scan runs past the terminating NUL: the build either
\* faults ("abort") or finds a quote byte beyond the text ("overread").
StrOutcomes(inp, pos, q) ==
    IF q >= 0
    THEN {PrimResult(DocStr(Slice(inp, pos + 1, q)), q + 1, "none")}
    ELSE {PrimResult(DocNull, pos, "abort")}
         \cup {PrimResult(DocStr(Slice(inp, pos + 1, Len(inp))), Len(inp) + 1 + g, "overread")
               : g \in 1..MaxOverread}

IsNumStart(c) == c = "+" \/ c = "-" \/ c = "." \/ c \in DigitSet

\* string_to_prim_doc(input, &pos, fin): the set of outcomes, a singleton
\* except for an unterminated string
StringToPrimDoc(inp, pos, fin) ==
    IF CharAt(inp, pos) = QUOTE THEN StrOutcomes(inp, pos, FindQuote(inp, pos + 1))
    ELSE IF StartsWith(inp, pos, <<"t", "r", "u", "e">>)
    THEN {PrimResult(DocBool(TRUE), pos + 4, "none")}
    ELSE IF StartsWith(inp, pos, <<"f", "a", "l", "s", "e">>)
    THEN {PrimResult(DocBool(FALSE), pos + 5, "none")}
    ELSE IF StartsWith(inp, pos, <<"n", "u", "l", "l">>)
    THEN {PrimResult(DocNull, pos + 4, "none")}
    ELSE IF IsNumStart(CharAt(inp, pos)) THEN {NumOutcome(inp, ScanNumber(inp, pos), fin)}
    ELSE {PrimResult(DocNull, SkipToDelim(inp, pos, fin), "none")}

----------------------------------------------------------------------------
(* string_to_doc *)

IsWs(c) == c = " " \/ c = "\n" \/ c = "\t" \/ c = "\r"
IsTrim(c) == IsWs(c) \/ c = NUL

\* "Find the first non-null char from the beginning", for a non-empty text
RECURSIVE TrimStart(_, _, _)
TrimStart(inp, start, end) ==
    IF start <= end /\ IsTrim(CharAt(inp, start))
    THEN TrimStart(inp, start + 1, end) ELSE start

\* "Find the first non-null char from the end"
RECURSIVE TrimEnd(_, _, _)
TrimEnd(inp, start, end) ==
    IF end >= start /\ IsTrim(CharAt(inp, end))
    THEN TrimEnd(inp, start, end - 1) ELSE end

StartOf(inp) == TrimStart(inp, 0, Len(inp) - 1)
EndOf(inp) == TrimEnd(inp, StartOf(inp), Len(inp) - 1)

Top(stk) == stk[Len(stk)]
Pop(stk) == SubSeq(stk, 1, Len(stk) - 1)

\* input.size() - 1 wraps for the empty text and the trimming loops then read
\* input[1], input[2], ... outside the string: the build faults or runs into
\* a branch that returns a null document
ParseEmpty ==
    /\ pc = "start"
    /\ Len(input) = 0
    /\ \E out \in {"abort", "done"} : pc' = out
    /\ res' = DocNull
    /\ oob' = TRUE
    /\ UNCHANGED <<heap, input, count, ge_stk>>
    /\ UNCHANGED notParse

\* "Empty or all spaces"
ParseBlank ==
    /\ pc = "start"
    /\ Len(input) > 0
    /\ StartOf(input) > EndOf(input)
    /\ pc' = "done"
    /\ res' = DocNull
    /\ UNCHANGED <<heap, oob, input, count, ge_stk>>
    /\ UNCHANGED notParse

FirstCh(inp) == CharAt(inp, StartOf(inp))
LastCh(inp) == CharAt(inp, EndOf(inp))
NonBlank(inp) == Len(inp) > 0 /\ StartOf(inp) <= EndOf(inp)
IsBracketed(a, b) == (a = "{" /\ b = "}") \/ (a = "[" /\ b = "]")
IsPrimRoot(a, b) == a # "[" /\ b # "]" /\ a # "{" /\ b # "}"

\* the frame pushed for a freshly allocated container r
PushRoot(r) ==
    /\ heap' = r.heap
    /\ ge_stk' = <<r.doc>>

\* input[start] == '{' && input[end] == '}', or '[' and ']'
ParseOpenRoot ==
    /\ pc = "start"
    /\ NonBlank(input)
    /\ IsBracketed(FirstCh(input), LastCh(input))
    /\ PushRoot(AllocDoc(heap, IF FirstCh(input) = "{" THEN "Dict" ELSE "Array"))
    /\ count' = StartOf(input) + 1
    /\ pc' = "loop"
    /\ UNCHANGED <<oob, input, res>>
    /\ UNCHANGED notParse

\* neither an opening bracket first nor a closing bracket last: one primitive
ParsePrimRoot ==
    /\ pc = "start"
    /\ NonBlank(input)
    /\ ~IsBracketed(FirstCh(input), LastCh(input))
    /\ IsPrimRoot(FirstCh(input), LastCh(input))
    /\ \E r \in StringToPrimDoc(input, StartOf(input), " ") :
          /\ res' = r.doc
          /\ count' = r.pos
          /\ pc' = IF r.ub = "abort" THEN "abort" ELSE "done"
          /\ oob' = (oob \/ r.ub # "none")
    /\ UNCHANGED <<heap, input, ge_stk>>
    /\ UNCHANGED notParse

\* "Wrong format"
ParseWrongFormat ==
    /\ pc = "start"
    /\ NonBlank(input)
    /\ ~IsBracketed(FirstCh(input), LastCh(input))
    /\ ~IsPrimRoot(FirstCh(input), LastCh(input))
    /\ pc' = "done"
    /\ res' = DocNull
    /\ UNCHANGED <<heap, oob, input, count, ge_stk>>
    /\ UNCHANGED notParse

InLoop == pc = "loop" /\ count < Len(input)

\* Viso::progress_step, one percent by default
progress_step == 1

\* ProgressBar::update, new_percentage: the quotient is computed in double and
\* cast to int, which is the integer quotient for every total below 50
NewPercentage(progress, total) == (progress * 100) \div total

\* ProgressBar::update on a bar showing shown: the percentage it shows on
\* return.  The difference is compared as unsigned int, where a negative
\* difference is a large value.  The call reads *progress and *total, writes
\* the member percentage and std::cout only
BarUpdate(shown, progress, total) ==
    IF /\ NewPercentage(progress, total) < 100
       /\ NewPercentage(progress, total) - shown >= 0
       /\ NewPercentage(progress, total) - shown < progress_step
    THEN shown
    ELSE NewPercentage(progress, total)

\* if (show_bar) progressBar.update(); at the end of the loop body, after the
\* loop and before the return of the root frame
ShowBar ==
    /\ show_bar' = show_bar
    /\ percentage' = IF show_bar /\ pc' # "abort"
                     THEN BarUpdate(percentage, count', Len(input))
                     ELSE percentage

\* what string_to_doc leaves alone in a step that reaches progressBar.update()
notLoop == <<docs, last, strVars>>

\* a variant of LoopExit that keeps the open frames only when the bar is shown
LoopExitShown ==
    /\ pc = "loop"
    /\ ~(count < Len(input))
    /\ pc' = "final"
    /\ ge_stk' = IF show_bar THEN ge_stk ELSE <<>>
    /\ UNCHANGED <<heap, oob, input, count, res>>
    /\ ShowBar
    /\ UNCHANGED notLoop

\* while (count < totalCharacters) is false
LoopExit ==
    /\ pc = "loop"
    /\ ~(count < Len(input))
    /\ pc' = "final"
    /\ UNCHANGED <<heap, oob, input, count, ge_stk, res>>
    /\ ShowBar
    /\ UNCHANGED notLoop

SkipSpace ==
    /\ InLoop
    /\ IsWs(CharAt(input, count))
    /\ count' = count + 1
    /\ UNCHANGED <<heap, oob, input, pc, ge_stk, res>>
    /\ UNCHANGED notParse

SkipComma ==
    /\ InLoop
    /\ CharAt(input, count) = ","
    /\ count' = count + 1
    /\ UNCHANGED <<heap, oob, input, pc, ge_stk, res>>
    /\ UNCHANGED notParse

\* "reaching the end of this object": either closing bracket pops the top frame
IsClose(c) == c = "}" \/ c = "]"

CloseFrame ==
    /\ InLoop
    /\ IsClose(CharAt(input, count))
    /\ count' = count + 1
    /\ ge_stk' = Pop(ge_stk)
    /\ IF Len(ge_stk) = 1
       THEN pc' = "done" /\ res' = Top(ge_stk) /\ ShowBar
       ELSE UNCHANGED <<pc, res, barVars>>
    /\ UNCHANGED <<heap, oob, input>>
    /\ UNCHANGED notLoop

IsElemStart(c) == ~IsWs(c) /\ c # "," /\ ~IsClose(c)

\* first index >= next holding ':', or the length of the text
RECURSIVE FindColon(_, _)
FindColon(inp, next) ==
    IF next < Len(inp) /\ inp[next + 1] # ":" THEN FindColon(inp, next + 1)
    ELSE IF next < Len(inp) THEN next ELSE Len(inp)

RECURSIVE TrimRight(_, _, _)
TrimRight(inp, left, right) ==
    IF left < right /\ IsWs(CharAt(inp, right))
    THEN TrimRight(inp, left, right - 1) ELSE right

RECURSIVE SkipWs(_, _)
SkipWs(inp, pos) ==
    IF pos < Len(inp) /\ IsWs(CharAt(inp, pos)) THEN SkipWs(inp, pos + 1) ELSE pos

\* the key range [left, right) of the entry that starts at cnt and whose ':'
\* is at next
KeyLeft(inp, cnt) == IF CharAt(inp, cnt) = QUOTE THEN cnt + 1 ELSE cnt
\* the key range kept with its closing quote
KeyCloseKept(inp, r) == r + 1

KeyClose(inp, r) == IF CharAt(inp, r) # QUOTE THEN r + 1 ELSE r
KeyRight(inp, cnt, next) == KeyClose(inp, TrimRight(inp, KeyLeft(inp, cnt), next - 1))

\* the key allocated for the entry whose ':' is at next
KeyAt(inp, cnt, next) ==
    Key(next, Slice(inp, KeyLeft(inp, cnt), KeyRight(inp, cnt, next)))

\* a nested container r as the value of key: upsert the placeholder, push the frame
DictOpenChild(doc, key, r, vpos) ==
    /\ heap' = DocUpsert(r.heap, doc, key, r.doc).heap
    /\ ge_stk' = Append(ge_stk, r.doc)
    /\ count' = vpos + 1
    /\ UNCHANGED <<oob, pc, res>>

\* a primitive value r of key
DictPrim(doc, key, r) ==
    /\ count' = r.pos
    /\ oob' = (oob \/ r.ub # "none")
    /\ IF r.ub = "abort"
       THEN pc' = "abort" /\ heap' = heap
       ELSE pc' = pc /\ heap' = DocUpsert(heap, doc, key, r.doc).heap
    /\ UNCHANGED <<ge_stk, res>>

\* the value of key, c being its first character, at vpos
DictValue(doc, key, vpos, c) ==
    IF vpos = Len(input)
    THEN /\ count' = vpos
         /\ pc' = "final"
         /\ UNCHANGED <<heap, oob, ge_stk, res>>
    ELSE IF c = "{" \/ c = "["
    THEN DictOpenChild(doc, key, AllocDoc(heap, IF c = "{" THEN "Dict" ELSE "Array"), vpos)
    ELSE IF c = "}" \/ c = "]" \/ c = ","
    THEN /\ count' = Len(input)
         /\ heap' = DocUpsert(heap, doc, key, DocNull).heap
         /\ UNCHANGED <<oob, pc, ge_stk, res>>
    ELSE \E r \in StringToPrimDoc(input, vpos, "}") : DictPrim(doc, key, r)

\* the entry whose ':' is at next (next = the length: the text holds no ':')
DictEntryAt(doc, next) ==
    IF next = Len(input)
    THEN /\ count' = next
         /\ pc' = "final"
         /\ UNCHANGED <<heap, oob, ge_stk, res>>
    ELSE IF KeyRight(input, count, next) < KeyLeft(input, count)
    THEN \* new char[0], then std::copy over a range of length -1
         /\ pc' = "abort"
         /\ oob' = TRUE
         /\ UNCHANGED <<heap, count, ge_stk, res>>
    ELSE DictValue(doc, KeyAt(input, count, next), SkipWs(input, next + 1),
                   CharAt(input, SkipWs(input, next + 1)))

\* one entry of a Dict frame
DictEntry ==
    /\ InLoop
    /\ IsElemStart(CharAt(input, count))
    /\ Top(ge_stk).t = "Dict"
    /\ DictEntryAt(Top(ge_stk), FindColon(input, count + 1))
    /\ UNCHANGED input
    /\ ShowBar
    /\ UNCHANGED notLoop

\* the array frame doc after emplace_back, eb being the outcome of the call
ArrStore(eb) ==
    /\ heap' = eb.heap
    /\ oob' = (oob \/ eb.oob)

\* a nested container r as the next element: emplace_back the placeholder,
\* push the frame
ArrOpenChild(doc, r) ==
    /\ ArrStore(DocEmplaceBack(r.heap, doc, r.doc))
    /\ ge_stk' = Append(ge_stk, r.doc)
    /\ count' = count + 1
    /\ UNCHANGED <<pc, res>>

\* a primitive element r
ArrPrim(doc, r) ==
    /\ count' = r.pos
    /\ IF r.ub = "abort"
       THEN pc' = "abort" /\ heap' = heap /\ oob' = TRUE
       ELSE /\ pc' = pc
            /\ heap' = DocEmplaceBack(heap, doc, r.doc).heap
            /\ oob' = (oob \/ DocEmplaceBack(heap, doc, r.doc).oob \/ r.ub # "none")
    /\ UNCHANGED <<ge_stk, res>>

ArrElemAt(doc, c) ==
    IF c = "{" \/ c = "["
    THEN ArrOpenChild(doc, AllocDoc(heap, IF c = "{" THEN "Dict" ELSE "Array"))
    ELSE IF c = "}"
    THEN /\ count' = Len(input)
         /\ ArrStore(DocEmplaceBack(heap, doc, DocNull))
         /\ UNCHANGED <<pc, ge_stk, res>>
    ELSE \E r \in StringToPrimDoc(input, count, "]") : ArrPrim(doc, r)

\* one element of an Array frame
ArrElem ==
    /\ InLoop
    /\ IsElemStart(CharAt(input, count))
    /\ Top(ge_stk).t = "Array"
    /\ ArrElemAt(Top(ge_stk), CharAt(input, count))
    /\ UNCHANGED input
    /\ ShowBar
    /\ UNCHANGED notLoop

\* a variant of ParseFinish that returns the frame on top of the stack
ParseFinishTop ==
    /\ pc = "final"
    /\ IF Len(ge_stk) > 0 THEN res' = Top(ge_stk) ELSE res' = DocNull
    /\ ge_stk' = <<>>
    /\ pc' = "done"
    /\ UNCHANGED <<heap, oob, input, count>>
    /\ UNCHANGED notParse

\* after the loop: frames are popped until the stack is empty and the last one
\* popped, the bottom frame, is returned
ParseFinish ==
    /\ pc = "final"
    /\ IF Len(ge_stk) > 0 THEN res' = ge_stk[1] ELSE res' = DocNull
    /\ ge_stk' = <<>>
    /\ pc' = "done"
    /\ UNCHANGED <<heap, oob, input, count>>
    /\ UNCHANGED notParse

ParseNext ==
    \/ ParseEmpty \/ ParseBlank \/ ParseOpenRoot \/ ParsePrimRoot \/ ParseWrongFormat
    \/ LoopExit \/ SkipSpace \/ SkipComma \/ CloseFrame \/ DictEntry \/ ArrElem
    \/ ParseFinish

----------------------------------------------------------------------------
(* The texts given to the parser.  A text is a sequence of fragments, each *)
(* one character here.  Four families: every text of at most MaxFrags      *)
(* fragments; every text of at most MaxBody fragments between a pair of    *)
(* matching brackets; bracketed texts of at most MaxInner fragments        *)
(* wrapped in up to MaxWrap enclosing containers; and Dict texts of at     *)
(* most MaxEntries well-formed entries.                                    *)

Frags == {<<"{">>, <<"}">>, <<"[">>, <<"]">>, <<",">>, <<":">>, <<QUOTE>>,
          <<" ">>, <<"1">>}

RECURSIVE Texts(_, _)
Texts(frags, k) ==
    IF k = 0 THEN {<<>>}
    ELSE {<<>>} \cup {t \o f : t \in Texts(frags, k - 1), f \in frags}

Bracketed(S) ==
    {<<"[">> \o t \o <<"]">> : t \in S} \cup {<<"{">> \o t \o <<"}">> : t \in S}

Wrap1(S) ==
    {<<"[">> \o t \o <<"]">> : t \in S}
    \cup {<<"{", "1", ":">> \o t \o <<"}">> : t \in S}
    \cup {<<"[", "1", ",">> \o t \o <<",", "1", "]">> : t \in S}

RECURSIVE Wrapped(_, _)
Wrapped(k, S) == IF k = 0 THEN S ELSE S \cup Wrap1(Wrapped(k - 1, S))

\* entries of a Dict: quoted and bare keys, two with the same text
EntryFrags == {<<QUOTE, "1", QUOTE, ":", "1">>, <<QUOTE, "1", QUOTE, ":", "2">>,
               <<QUOTE, "2", QUOTE, ":", "1">>, <<"1", ":", "2">>}

\* at most k fragments joined by ','
RECURSIVE Joined(_, _)
Joined(frags, k) ==
    IF k = 0 THEN {<<>>}
    ELSE Joined(frags, k - 1)
         \cup {IF t = <<>> THEN f ELSE t \o <<",">> \o f : t \in Joined(frags, k - 1), f \in frags}

Inputs ==
    Texts(Frags, MaxFrags)
    \cup Bracketed(Texts(Frags, MaxBody))
    \cup Wrapped(MaxWrap, Bracketed(Texts(Frags, MaxInner)))
    \cup {<<"{">> \o t \o <<"}">> : t \in Joined(EntryFrags, MaxEntries)}

ParseInit ==
    /\ input \in Inputs
    /\ heap = <<>>
    /\ oob = FALSE
    /\ pc = "start"
    /\ count = 0
    /\ ge_stk = <<>>
    /\ res = DocNull
    /\ docs = <<>>
    /\ last = <<>>
    /\ visualize = FALSE
    /\ doc_stk = <<>>
    /\ char_stk = <<>>
    /\ result = <<>>
    /\ show_bar = FALSE
    /\ percentage = 0

SpecParse == ParseInit /\ [][ParseNext]_vars

----------------------------------------------------------------------------
(* Properties of string_to_doc *)

\* the containers held by the children of container a
ChildAddrs(h, a) ==
    {h[a].buf[i].n : i \in {j \in 1..Len(h[a].buf) : j <= h[a].s /\ IsContainer(h[a].buf[j])}}
    \cup {h[a].m[k].n : k \in {x \in DOMAIN h[a].m : IsContainer(h[a].m[x])}}

\* the containers reachable from the set S of containers in at most k steps
RECURSIVE ReachFrom(_, _, _)
ReachFrom(h, S, k) ==
    IF k = 0 THEN S
    ELSE ReachFrom(h, S \cup UNION {ChildAddrs(h, a) : a \in S \cap (1..Len(h))}, k - 1)

Reach(h, d) == IF IsContainer(d) THEN ReachFrom(h, {d.n}, Len(h)) ELSE {}

\* how many characters of text are in the set S
CountIn(text, S) == Cardinality({i \in 1..Len(text) : text[i] \in S})

\* C4: for every input text string_to_doc terminates and returns a Doc: no
\* run of it ends in an abort.
C4_NeverAborts == pc # "abort"

\* C8 as claimed, for runs that stay inside the text: Dict for {..}, Array
\* for [..], the primitive when neither end is a bracket, and a null document
\* in every other case.
C8_DispatchAsClaimed ==
    (pc = "done" /\ NonBlank(input) /\ ~oob) =>
        IF FirstCh(input) = "{" /\ LastCh(input) = "}" THEN res = DocPtr("Dict", 1)
        ELSE IF FirstCh(input) = "[" /\ LastCh(input) = "]" THEN res = DocPtr("Array", 1)
        ELSE IF {FirstCh(input), LastCh(input)} \cap {"{", "}", "[", "]"} = {}
        THEN ~IsContainer(res) /\ heap = <<>>
        ELSE res = DocNull /\ heap = <<>>

\* C8, amended: Dict for {..}, Array for [..]; a null document when the first
\* character is an opening bracket or the last a closing bracket without its
\* partner at the other end; otherwise (also when the text starts with a
\* closing or ends with an opening bracket) the primitive parsed from the
\* start.  For bracketed text the result is the root container, the first one
\* allocated, also when frames are still open at the end of the text.
C8_TopLevelDispatch ==
    (pc = "done" /\ NonBlank(input)) =>
        IF FirstCh(input) = "{" /\ LastCh(input) = "}" THEN res = DocPtr("Dict", 1)
        ELSE IF FirstCh(input) = "[" /\ LastCh(input) = "]" THEN res = DocPtr("Array", 1)
        ELSE IF FirstCh(input) \in {"{", "["} \/ LastCh(input) \in {"}", "]"}
        THEN res = DocNull /\ heap = <<>>
        ELSE ~IsContainer(res) /\ heap = <<>>

\* the text ended with a nested frame still open and the root was returned
C8_Witness ==
    /\ pc = "done"
    /\ ~oob
    /\ CountIn(input, {"[", "{"}) > CountIn(input, {"]", "}"}) + 1
    /\ Len(heap) >= 3
    /\ res = DocPtr("Array", 1)
    /\ heap[1].s >= 1

\* C9: in the main loop '}' pops the top frame only when it is a Dict frame
\* and ']' only when it is an Array frame.
C9_PopOnlyByOwnBracket ==
    [][(pc = "loop" /\ Len(ge_stk') < Len(ge_stk)) =>
          \/ (CharAt(input, count) = "}" /\ Top(ge_stk).t = "Dict")
          \/ (CharAt(input, count) = "]" /\ Top(ge_stk).t = "Array")]_vars

\* does container o hold Doc d as an element or as an entry's value
HoldsChild(o, d) ==
    \/ \E i \in 1..Len(o.buf) : i <= o.s /\ o.buf[i] = d
    \/ \E k \in DOMAIN o.m : o.m[k] = d

\* C10: the placeholder stored in the parent and the frame pushed denote the
\* same container: every frame above the bottom one is held by the container
\* of the frame below it, and when parsing returns a container every
\* container that was allocated is reachable from the result.
C10_PlaceholderIsFrame ==
    /\ \A i \in 2..Len(ge_stk) : HoldsChild(heap[ge_stk[i - 1].n], ge_stk[i])
    /\ (pc = "done" /\ IsContainer(res)) => Reach(heap, res) = 1..Len(heap)

\* a value added at nesting depth 3 is seen from the result
C10_Witness ==
    /\ pc = "done"
    /\ ~oob
    /\ Len(heap) >= 3
    /\ res.n = 1
    /\ 2 \in ChildAddrs(heap, 1)
    /\ 3 \in ChildAddrs(heap, 2)
    /\ (heap[3].s >= 1 \/ DOMAIN heap[3].m # {})

----------------------------------------------------------------------------
(* The Doc API as a client uses it: two Doc variables, a and b, declared   *)
(* with the default constructor, and calls on them.  `last` records the    *)
(* outcome of the call just made.                                          *)

Names == {"a", "b"}

\* a call, whether it returned (ok) or threw, and the bool it returned
Called(ok, ret) == [ok |-> ok, ret |-> ret]

\* Doc(Type type) for a type without a container: the zero value of the type
ZeroDoc(t) ==
    IF t \in {"LLong", "Float", "Double", "LDouble"}
    THEN MkDoc(t, AltOf(t), 1, <<>>, 0)
    ELSE MkDoc(t, AltOf(t), 0, <<>>, 0)

\* Doc(Type type): the new heap and the Doc constructed
DocOfType(h, t) ==
    IF t \in {"Array", "Dict", "Tuple"} THEN AllocDoc(h, t)
    ELSE [heap |-> h, doc |-> ZeroDoc(t)]

\* the if-constexpr chain of Doc(T value): the tag chosen for the C++ type T
TagOf(alt) ==
    CASE alt = "char" -> "Char"
      [] alt = "int" -> "Int"
      [] alt = "long long" -> "LLong"
      [] alt = "float" -> "Float"
      [] alt = "double" -> "Double"
      [] alt = "long double" -> "LDouble"
      [] alt = "bool" -> "Bool"
      [] alt = "const char*" -> "Str"
      [] alt = "DocTuple*" -> "Tuple"
      [] alt = "DocArr*" -> "Array"
      [] alt = "DictObj*" -> "Dict"
      [] OTHER -> "Nullptr"

\* Doc(T value): t from the chain, var = value
DocOfValue(v) == [v EXCEPT !.t = TagOf(v.alt)]

\* the values a client passes: one of each primitive C++ type
Values ==
    {DocChar(65), DocInt(7), DocLLong(1, <<"7">>), DocBool(TRUE), DocStr(<<"k">>),
     DocDouble(1, <<"1", "5">>, -1),
     MkDoc("Float", "float", 1, <<"1", "5">>, -1),
     MkDoc("LDouble", "long double", 1, <<"1", "5">>, -1)}

\* a variant of SetValue that stores the value without updating the tag
SetValueKeepTag(self, t, v) ==
    [DeleteVar(self) EXCEPT !.alt = v.alt, !.n = v.n, !.s = v.s, !.e = v.e]

\* set_char ... set_str, set_tuple, set_arr, set_dict and set_null, t being the
\* Type the setter names and v the value passed: delete_var(); t = ...; var = value
SetValue(self, t, v) ==
    [DeleteVar(self) EXCEPT !.t = t, !.alt = v.alt, !.n = v.n, !.s = v.s, !.e = v.e]

\* std::get<T>(var) of the getter for type t returns; otherwise it throws
\* std::bad_variant_access
GetOk(d, t) == d.alt = AltOf(t)

\* x = Doc(type)
CtorType(x, t) ==
    /\ pc = "idle"
    /\ t \in {"Array", "Dict", "Tuple"} => Len(heap) < MaxObjs
    /\ heap' = DocOfType(heap, t).heap
    /\ docs' = [docs EXCEPT ![x] = DocAssign(@, DocOfType(heap, t).doc)]
    /\ last' = Called(TRUE, FALSE)
    /\ UNCHANGED <<oob, input, pc, count, ge_stk, res, strVars, barVars>>

\* x = Doc(value)
CtorValue(x, v) ==
    /\ pc = "idle"
    /\ docs' = [docs EXCEPT ![x] = DocAssign(@, DocOfValue(v))]
    /\ last' = Called(TRUE, FALSE)
    /\ UNCHANGED <<heap, oob, input, pc, count, ge_stk, res, strVars, barVars>>

\* x.set_char(v) ... x.set_str(v)
SetPrim(x, v) ==
    /\ pc = "idle"
    /\ docs' = [docs EXCEPT ![x] = SetValue(@, TagOf(v.alt), v)]
    /\ last' = Called(TRUE, FALSE)
    /\ UNCHANGED <<heap, oob, input, pc, count, ge_stk, res, strVars, barVars>>

\* x.set_null()
SetNull(x) ==
    /\ pc = "idle"
    /\ docs' = [docs EXCEPT ![x] = SetValue(@, "Nullptr", DocNull)]
    /\ last' = Called(TRUE, FALSE)
    /\ UNCHANGED <<heap, oob, input, pc, count, ge_stk, res, strVars, barVars>>

\* x.set_tuple(c), x.set_arr(c), x.set_dict(c), c being the container at addr
SetPtr(x, addr) ==
    /\ pc = "idle"
    /\ docs' = [docs EXCEPT ![x] = SetValue(@, heap[addr].kind, DocPtr(heap[addr].kind, addr))]
    /\ last' = Called(TRUE, FALSE)
    /\ UNCHANGED <<heap, oob, input, pc, count, ge_stk, res, strVars, barVars>>

\* x = y
Assign(x, y) ==
    /\ pc = "idle"
    /\ x # y
    /\ docs' = [docs EXCEPT ![x] = DocAssign(@, docs[y])]
    /\ last' = Called(TRUE, FALSE)
    /\ UNCHANGED <<heap, oob, input, pc, count, ge_stk, res, strVars, barVars>>

\* x.get_char() ... x.get_dict_obj(), t naming the getter
Get(x, t) ==
    /\ pc = "idle"
    /\ last' = Called(GetOk(docs[x], t), FALSE)
    /\ UNCHANGED <<heap, oob, input, pc, count, ge_stk, res, docs, strVars, barVars>>

DocNext ==
    \/ \E x \in Names, t \in Types : CtorType(x, t)
    \/ \E x \in Names, v \in Values : CtorValue(x, v)
    \/ \E x \in Names, v \in Values : SetPrim(x, v)
    \/ \E x \in Names : SetNull(x)
    \/ \E x \in Names, addr \in 1..Len(heap) : SetPtr(x, addr)
    \/ \E x, y \in Names : Assign(x, y)
    \/ \E x \in Names, t \in Types : Get(x, t)

\* Doc a, b;
ApiInit ==
    /\ heap = <<>>
    /\ oob = FALSE
    /\ input = <<>>
    /\ pc = "idle"
    /\ count = 0
    /\ ge_stk = <<>>
    /\ res = DocNull
    /\ docs = [x \in Names |-> DocNull]
    /\ last = Called(TRUE, FALSE)
    /\ visualize = FALSE
    /\ doc_stk = <<>>
    /\ char_stk = <<>>
    /\ result = <<>>
    /\ show_bar = FALSE
    /\ percentage = 0

SpecDoc == ApiInit /\ [][DocNext]_vars

\* every Doc stored in a container: live elements and entry values
Stored(h) ==
    UNION {{h[a].buf[i] : i \in {j \in 1..Len(h[a].buf) : j <= h[a].s}}
           \cup {h[a].m[k] : k \in DOMAIN h[a].m} : a \in 1..Len(h)}

\* C7: the tag of every live Doc names the alternative its variant holds, and
\* the getter for a type returns exactly when the Doc's tag is that type and
\* throws otherwise.
C7_TagNamesAlternative ==
    /\ [](/\ \A x \in Names : docs[x].alt = AltOf(docs[x].t)
          /\ \A d \in Stored(heap) : d.alt = AltOf(d.t))
    /\ [][\A x \in Names, t \in Types : Get(x, t) => (last'.ok <=> docs[x].t = t)]_vars

\* a getter was refused (the only call on a Doc of this client that throws)
\* after the Docs were re-typed by constructors, setters or assignments, one
\* of them to a container
C7_Witness ==
    /\ ~last.ok
    /\ \E x \in Names : docs[x].t \in {"Int", "Str", "Double"}
    /\ \E y \in Names : IsContainer(docs[y])

----------------------------------------------------------------------------
(* Calls on the containers held by the client's Docs *)

\* the C strings the client passes as keys: two buffers with the same text
ApiKeys == {Key(1, <<"k">>), Key(2, <<"k">>)}

\* the Docs the client passes as values: the temporary Doc(7) or one of its
\* variables
Sources == {"7"} \cup Names
ArgOf(src) == IF src = "7" THEN DocInt(7) ELSE docs[src]

\* sequences over S of length at most k
RECURSIVE SeqsUpTo(_, _)
SeqsUpTo(S, k) ==
    IF k = 0 THEN {<<>>}
    ELSE SeqsUpTo(S, k - 1) \cup {Append(q, v) : q \in {r \in SeqsUpTo(S, k - 1) : Len(r) = k - 1}, v \in S}

\* Doc::size
DocSize(h, d) ==
    IF d.t \in {"Tuple", "Array"} THEN h[d.n].s
    ELSE IF d.t = "Dict" THEN Cardinality(DOMAIN h[d.n].m)
    ELSE IF d.t = "Nullptr" THEN 0
    ELSE 1

\* map->erase(it) on a DictObj
MapErase(m, k) == [x \in (DOMAIN m) \ {k} |-> m[x]]

\* Doc::erase: ok = FALSE stands for the thrown runtime_error, found for the
\* value returned
DocErase(h, d, k) ==
    IF d.t = "Dict" /\ d.alt = "DictObj*"
    THEN [ok |-> TRUE, found |-> k \in DOMAIN h[d.n].m,
          heap |-> [h EXCEPT ![d.n].m = MapErase(@, k)]]
    ELSE [ok |-> FALSE, found |-> FALSE, heap |-> h]

\* Doc::operator[]: (*map)[key] default-constructs the value of a new key
DocIndex(h, d, k) ==
    IF d.t = "Dict" /\ d.alt = "DictObj*"
    THEN [ok |-> TRUE,
          heap |-> IF k \in DOMAIN h[d.n].m THEN h
                   ELSE [h EXCEPT ![d.n].m = [x \in (DOMAIN @) \cup {k} |->
                                                IF x = k THEN DocNull ELSE @[x]]]]
    ELSE [ok |-> FALSE, heap |-> h]

\* a pop_back without the test for the empty array
ArrPopBackUnguarded(o) ==
    [o |-> [o EXCEPT !.buf = BufWrite(@, o.s, DocNull), !.s = o.s - 1],
     popped |-> TRUE, oob |-> ~(o.s < o.cap)]

\* DocArr::pop_back: the slot written is arr[s], one past the last element
ArrPopBack(o) ==
    IF o.s = 0 THEN [o |-> o, popped |-> FALSE, oob |-> FALSE]
    ELSE [o |-> [o EXCEPT !.buf = BufWrite(@, o.s, DocNull), !.s = o.s - 1],
          popped |-> TRUE, oob |-> ~(o.s < o.cap)]

\* a pop_back that accepts a Tuple as well as an Array
DocPopBackLists(h, d) ==
    IF d.t \in {"Array", "Tuple"}
    THEN [ok |-> TRUE, popped |-> ArrPopBack(h[d.n]).popped,
          heap |-> [h EXCEPT ![d.n] = ArrPopBack(h[d.n]).o],
          oob |-> ArrPopBack(h[d.n]).oob]
    ELSE [ok |-> FALSE, popped |-> FALSE, heap |-> h, oob |-> FALSE]

\* Doc::pop_back
DocPopBack(h, d) ==
    IF d.t = "Array" /\ d.alt = "DocArr*"
    THEN [ok |-> TRUE, popped |-> ArrPopBack(h[d.n]).popped,
          heap |-> [h EXCEPT ![d.n] = ArrPopBack(h[d.n]).o],
          oob |-> ArrPopBack(h[d.n]).oob]
    ELSE [ok |-> FALSE, popped |-> FALSE, heap |-> h, oob |-> FALSE]

\* std::copy(values.begin(), values.end(), buf): element by element with
\* Doc::operator=
CopyInto(buf, vals) ==
    [i \in 1..Len(buf) |-> IF i <= Len(vals) THEN DocAssign(buf[i], vals[i]) ELSE buf[i]]

Max(a, b) == IF a >= b THEN a ELSE b

\* DocArr::set_values
ArrSetValues(o, vals) ==
    IF Len(vals) > o.cap
    THEN [o EXCEPT !.cap = Max(Len(vals), 2 * o.cap),
                   !.buf = CopyInto([i \in 1..Max(Len(vals), 2 * o.cap) |-> DocNull], vals),
                   !.s = Max(o.s, Len(vals))]
    ELSE [o EXCEPT !.buf = CopyInto(@, vals), !.s = Max(o.s, Len(vals))]

\* DocTuple::set_values
TupleSetValues(o, vals) ==
    [o EXCEPT !.s = Len(vals), !.cap = Len(vals), !.nul = FALSE,
              !.buf = CopyInto([i \in 1..Len(vals) |-> DocNull], vals)]

\* x.upsert(k, v)
Upsert(x, k, v) ==
    /\ pc = "idle"
    /\ docs[x].t = "Dict" => (k \in DOMAIN heap[docs[x].n].m \/ DocSize(heap, docs[x]) < MaxElems)
    /\ heap' = DocUpsert(heap, docs[x], k, v).heap
    /\ last' = Called(DocUpsert(heap, docs[x], k, v).ok, FALSE)
    /\ UNCHANGED <<oob, input, pc, count, ge_stk, res, docs, strVars, barVars>>

\* x.erase(k)
Erase(x, k) ==
    /\ pc = "idle"
    /\ heap' = DocErase(heap, docs[x], k).heap
    /\ last' = Called(DocErase(heap, docs[x], k).ok, DocErase(heap, docs[x], k).found)
    /\ UNCHANGED <<oob, input, pc, count, ge_stk, res, docs, strVars, barVars>>

\* x[k]
Index(x, k) ==
    /\ pc = "idle"
    /\ docs[x].t = "Dict" => (k \in DOMAIN heap[docs[x].n].m \/ DocSize(heap, docs[x]) < MaxElems)
    /\ heap' = DocIndex(heap, docs[x], k).heap
    /\ last' = Called(DocIndex(heap, docs[x], k).ok, FALSE)
    /\ UNCHANGED <<oob, input, pc, count, ge_stk, res, docs, strVars, barVars>>

\* x.emplace_back(v)
EmplaceBack(x, v) ==
    /\ pc = "idle"
    /\ docs[x].t = "Array" => DocSize(heap, docs[x]) < MaxElems
    /\ heap' = DocEmplaceBack(heap, docs[x], v).heap
    /\ oob' = (oob \/ DocEmplaceBack(heap, docs[x], v).oob)
    /\ last' = Called(DocEmplaceBack(heap, docs[x], v).ok, FALSE)
    /\ UNCHANGED <<input, pc, count, ge_stk, res, docs, strVars, barVars>>

\* x.pop_back()
PopBack(x) ==
    /\ pc = "idle"
    /\ heap' = DocPopBack(heap, docs[x]).heap
    /\ oob' = (oob \/ DocPopBack(heap, docs[x]).oob)
    /\ last' = Called(DocPopBack(heap, docs[x]).ok, DocPopBack(heap, docs[x]).popped)
    /\ UNCHANGED <<input, pc, count, ge_stk, res, docs, strVars, barVars>>

\* x.get_arr().set_values(vals) or x.get_tuple().set_values(vals)
SetValues(x, vals) ==
    /\ pc = "idle"
    /\ docs[x].t \in {"Array", "Tuple"}
    /\ heap' = [heap EXCEPT ![docs[x].n] =
                    IF docs[x].t = "Array" THEN ArrSetValues(@, vals) ELSE TupleSetValues(@, vals)]
    /\ last' = Called(TRUE, FALSE)
    /\ UNCHANGED <<oob, input, pc, count, ge_stk, res, docs, strVars, barVars>>

ApiNext ==
    \/ \E x \in Names, t \in {"Array", "Dict", "Tuple"} : CtorType(x, t)
    \/ \E x, y \in Names : Assign(x, y)
    \/ \E x \in Names, k \in ApiKeys, src \in Sources : Upsert(x, k, ArgOf(src))
    \/ \E x \in Names, k \in ApiKeys : Erase(x, k)
    \/ \E x \in Names, k \in ApiKeys : Index(x, k)
    \/ \E x \in Names, src \in Sources : EmplaceBack(x, ArgOf(src))
    \/ \E x \in Names : PopBack(x)
    \/ \E x \in Names, srcs \in SeqsUpTo(Sources, MaxElems) :
          SetValues(x, [i \in 1..Len(srcs) |-> ArgOf(srcs[i])])

SpecApi == ApiInit /\ [][ApiNext]_vars

\* a call that changes a container through the variable x
Mutates(x) ==
    \/ \E k \in ApiKeys, src \in Sources : Upsert(x, k, ArgOf(src))
    \/ \E k \in ApiKeys : Erase(x, k) \/ Index(x, k)
    \/ \E src \in Sources : EmplaceBack(x, ArgOf(src))
    \/ PopBack(x)
    \/ \E srcs \in SeqsUpTo(Sources, MaxElems) :
          SetValues(x, [i \in 1..Len(srcs) |-> ArgOf(srcs[i])])

\* C2: a call that changes the container of one variable leaves the container
\* of every other variable as it was, whatever copies and assignments were
\* made before.
C2_DeepCopy ==
    [][\A x, y \in Names :
          (Mutates(x) /\ x # y /\ IsContainer(docs[y]))
              => heap'[docs[y].n] = heap[docs[y].n]]_vars

\* how many Doc values hold the container at address a
Holders(a) ==
    Cardinality({x \in Names : IsContainer(docs[x]) /\ docs[x].n = a})
    + Cardinality({<<b, i>> \in (1..Len(heap)) \X (1..MaxElems) :
                      /\ i <= heap[b].s /\ i <= Len(heap[b].buf)
                      /\ IsContainer(heap[b].buf[i]) /\ heap[b].buf[i].n = a})
    + Cardinality({<<b, k>> \in (1..Len(heap)) \X ApiKeys :
                      /\ k \in DOMAIN heap[b].m
                      /\ IsContainer(heap[b].m[k]) /\ heap[b].m[k].n = a})

\* C3: the Docs and the containers they hold form a tree: no container is
\* held by two Doc values and none is reachable from itself.
C3_IsTree ==
    \A a \in 1..Len(heap) :
        /\ Holders(a) <= 1
        /\ a \notin ReachFrom(heap, ChildAddrs(heap, a), Len(heap))

----------------------------------------------------------------------------
(* DocArr and DocTuple objects used directly.  Every container is an entry *)
(* of `heap`; the elements stored are the temporary Doc(7).                *)

IsArr(a) == heap[a].kind = "Array"
IsTuple(a) == heap[a].kind = "Tuple"

\* a variant of CopyOf that fills the new buffer from the last element down
CopyOfBackward(buf, n) ==
    [i \in 1..n |-> IF n + 1 - i <= Len(buf) THEN DocAssign(DocNull, buf[n + 1 - i]) ELSE DocNull]

\* the first n elements of buf, copied into a new buffer of n Docs; a read at
\* an index outside buf yields a null Doc here and is reported by CopyOob
CopyOf(buf, n) == [i \in 1..n |-> IF i <= Len(buf) THEN DocAssign(DocNull, buf[i]) ELSE DocNull]
CopyOob(buf, n) == n > Len(buf)

\* DocArr(Doc* array, size_t size) on a buffer of n Docs
AdoptedArr(n) == Obj("Array", [i \in 1..n |-> DocInt(7)], n, n, EmptyMap, FALSE)

\* DocArr(const DocArr& other)
ArrCopied(o) == [o EXCEPT !.buf = Regrown(o, o.cap)]

\* DocTuple(std::initializer_list<Doc> docs) with n elements
TupleOf(n) == Obj("Tuple", [i \in 1..n |-> DocInt(7)], n, n, EmptyMap, n = 0)

\* DocArr::to_tuple
ArrToTuple(o) == Obj("Tuple", CopyOf(o.buf, o.s), o.s, o.s, EmptyMap, FALSE)

\* DocTuple::to_arraylist, for tpl # nullptr
TupleToArr(o) == Obj("Array", CopyOf(o.buf, o.s), o.s, o.s, EmptyMap, FALSE)

\* DocArr::set_value
ArrSetValue(o, pos, doc) ==
    IF pos >= o.s THEN [o |-> o, ret |-> FALSE, oob |-> FALSE]
    ELSE [o |-> [o EXCEPT !.buf = BufWrite(@, pos, doc)], ret |-> TRUE,
          oob |-> ~(pos < Len(o.buf))]

\* DocArr::resize
ArrResized(o, new_cap) ==
    [o EXCEPT !.s = IF new_cap < o.s THEN new_cap ELSE o.s,
              !.cap = new_cap,
              !.buf = [i \in 1..new_cap |->
                          IF i <= o.s /\ i <= Len(o.buf) THEN DocAssign(DocNull, o.buf[i])
                          ELSE DocNull]]

\* an assignment that keeps the larger of the two capacities
ArrAssignedRoomy(self, other) ==
    [other EXCEPT !.cap = Max(self.cap, other.cap),
                  !.buf = Regrown(other, Max(self.cap, other.cap))]

\* DocArr::operator=
ArrAssigned(self, other) == [other EXCEPT !.buf = Regrown(other, other.cap)]

\* DocArr(), DocArr(capacity), DocArr(array, size)
ArrCtor(o) ==
    /\ pc = "idle"
    /\ Len(heap) < MaxObjs
    /\ heap' = Append(heap, o)
    /\ last' = Called(TRUE, FALSE)
    /\ UNCHANGED <<oob, input, pc, count, ge_stk, res, docs, strVars, barVars>>

\* DocArr b(a)
ArrCopyCtor(a) ==
    /\ pc = "idle"
    /\ Len(heap) < MaxObjs
    /\ IsArr(a)
    /\ heap' = Append(heap, ArrCopied(heap[a]))
    /\ oob' = (oob \/ CopyOob(heap[a].buf, heap[a].s))
    /\ last' = Called(TRUE, FALSE)
    /\ UNCHANGED <<input, pc, count, ge_stk, res, docs, strVars, barVars>>

\* DocTuple{...}
TupleCtor(n) ==
    /\ pc = "idle"
    /\ Len(heap) < MaxObjs
    /\ heap' = Append(heap, TupleOf(n))
    /\ last' = Called(TRUE, FALSE)
    /\ UNCHANGED <<oob, input, pc, count, ge_stk, res, docs, strVars, barVars>>

\* a.to_arraylist()
ToArrayList(a) ==
    /\ pc = "idle"
    /\ Len(heap) < MaxObjs
    /\ IsTuple(a)
    /\ heap' = IF heap[a].nul THEN heap ELSE Append(heap, TupleToArr(heap[a]))
    /\ last' = Called(~heap[a].nul, FALSE)
    /\ UNCHANGED <<oob, input, pc, count, ge_stk, res, docs, strVars, barVars>>

\* a.to_tuple()
ToTuple(a) ==
    /\ pc = "idle"
    /\ Len(heap) < MaxObjs
    /\ IsArr(a)
    /\ heap' = Append(heap, ArrToTuple(heap[a]))
    /\ oob' = (oob \/ CopyOob(heap[a].buf, heap[a].s))
    /\ last' = Called(TRUE, FALSE)
    /\ UNCHANGED <<input, pc, count, ge_stk, res, docs, strVars, barVars>>

\* a.emplace_back(Doc(7))
ArrEmplace(a) ==
    /\ pc = "idle"
    /\ IsArr(a)
    /\ heap[a].s < MaxElems
    /\ heap' = [heap EXCEPT ![a] = ArrEmplaceBack(@, DocInt(7)).o]
    /\ oob' = (oob \/ ArrEmplaceBack(heap[a], DocInt(7)).oob
                   \/ (~Full(heap[a]) /\ ~(heap[a].s < Len(heap[a].buf))))
    /\ last' = Called(TRUE, FALSE)
    /\ UNCHANGED <<input, pc, count, ge_stk, res, docs, strVars, barVars>>

\* a.pop_back()
ArrPop(a) ==
    /\ pc = "idle"
    /\ IsArr(a)
    /\ heap' = [heap EXCEPT ![a] = ArrPopBack(@).o]
    /\ oob' = (oob \/ ArrPopBack(heap[a]).oob)
    /\ last' = Called(TRUE, ArrPopBack(heap[a]).popped)
    /\ UNCHANGED <<input, pc, count, ge_stk, res, docs, strVars, barVars>>

\* a.set_value(pos, Doc(7))
ArrSet(a, pos) ==
    /\ pc = "idle"
    /\ IsArr(a)
    /\ heap' = [heap EXCEPT ![a] = ArrSetValue(@, pos, DocInt(7)).o]
    /\ oob' = (oob \/ ArrSetValue(heap[a], pos, DocInt(7)).oob)
    /\ last' = Called(TRUE, ArrSetValue(heap[a], pos, DocInt(7)).ret)
    /\ UNCHANGED <<input, pc, count, ge_stk, res, docs, strVars, barVars>>

\* a.set_values({Doc(7), ...}) with n elements
ArrSetAll(a, n) ==
    /\ pc = "idle"
    /\ IsArr(a)
    /\ heap' = [heap EXCEPT ![a] = ArrSetValues(@, [i \in 1..n |-> DocInt(7)])]
    /\ last' = Called(TRUE, FALSE)
    /\ UNCHANGED <<oob, input, pc, count, ge_stk, res, docs, strVars, barVars>>

\* a.resize(new_cap)
ArrResize(a, new_cap) ==
    /\ pc = "idle"
    /\ IsArr(a)
    /\ heap' = [heap EXCEPT ![a] = ArrResized(@, new_cap)]
    /\ oob' = (oob \/ CopyOob(heap[a].buf, IF new_cap < heap[a].s THEN new_cap ELSE heap[a].s))
    /\ last' = Called(TRUE, FALSE)
    /\ UNCHANGED <<input, pc, count, ge_stk, res, docs, strVars, barVars>>

\* a = b
ArrAssign(a, b) ==
    /\ pc = "idle"
    /\ IsArr(a) /\ IsArr(b)
    /\ a # b
    /\ heap' = [heap EXCEPT ![a] = ArrAssigned(@, heap[b])]
    /\ oob' = (oob \/ CopyOob(heap[b].buf, heap[b].s))
    /\ last' = Called(TRUE, FALSE)
    /\ UNCHANGED <<input, pc, count, ge_stk, res, docs, strVars, barVars>>

ArrNext ==
    \/ ArrCtor(NewArr)
    \/ \E c \in 0..MaxCap : ArrCtor(NewArrCap(c))
    \/ \E n \in 0..MaxCap : ArrCtor(AdoptedArr(n))
    \/ \E a \in 1..Len(heap) : ArrCopyCtor(a)
    \/ \E n \in 0..MaxCap : TupleCtor(n)
    \/ \E a \in 1..Len(heap) : ToArrayList(a)
    \/ \E a \in 1..Len(heap) : ToTuple(a)
    \/ \E a \in 1..Len(heap) : ArrEmplace(a)
    \/ \E a \in 1..Len(heap) : ArrPop(a)
    \/ \E a \in 1..Len(heap), pos \in 0..MaxElems : ArrSet(a, pos)
    \/ \E a \in 1..Len(heap), n \in 0..MaxElems : ArrSetAll(a, n)
    \/ \E a \in 1..Len(heap), c \in 0..MaxCap : ArrResize(a, c)
    \/ \E a, b \in 1..Len(heap) : ArrAssign(a, b)

SpecArr == ApiInit /\ [][ArrNext]_vars

\* C6: every DocArr has size() <= capacity().
C6_SizeWithinCapacity ==
    \A a \in 1..Len(heap) : IsArr(a) => heap[a].s <= heap[a].cap

----------------------------------------------------------------------------
(* Properties of DictObj *)

\* C5: no two entries of a Dict have keys of equal text.
C5_KeysUniqueByText ==
    \A a \in 1..Len(heap) :
        \A k1, k2 \in DOMAIN heap[a].m : k1.s = k2.s => k1 = k2

----------------------------------------------------------------------------
(* Doc::prim_to_str *)

Zeros(k) == [i \in 1..k |-> "0"]

\* the grave accent, code 96
GRAVE == "GRAVE"

\* the printable characters by code, from 32 (space) to 126 (tilde)
Printable ==
    <<" ", "!", "\"", "#", "$", "%", "&", "'", "(", ")", "*", "+", ",", "-", ".", "/",
      "0", "1", "2", "3", "4", "5", "6", "7", "8", "9", ":", ";", "<", "=", ">", "?",
      "@", "A", "B", "C", "D", "E", "F", "G", "H", "I", "J", "K", "L", "M", "N", "O",
      "P", "Q", "R", "S", "T", "U", "V", "W", "X", "Y", "Z", "[", "\\", "]", "^", "_",
      GRAVE, "a", "b", "c", "d", "e", "f", "g", "h", "i", "j", "k", "l", "m", "n", "o",
      "p", "q", "r", "s", "t", "u", "v", "w", "x", "y", "z", "{", "|", "}", "~">>

\* the character of a char value; "CTL" stands for any byte that is not printable
CharOfCode(c) ==
    IF c \in 32..126 THEN Printable[c - 31] ELSE IF c = 0 THEN NUL ELSE "CTL"

\* std::to_string of a non-negative int
Decimal(v) == IF v = 0 THEN <<"0">> ELSE ToDigits(v)

\* the least int, and the digits of its magnitude and of the magnitude of
\* the least long long
INT_MIN == -2147483647 - 1
IntMinDigits == <<"2", "1", "4", "7", "4", "8", "3", "6", "4", "8">>
LLongMinDigits ==
    <<"9", "2", "2", "3", "3", "7", "2", "0", "3", "6", "8", "5", "4", "7", "7", "5", "8", "0", "8">>

\* std::to_string(int)
IntToString(v) ==
    IF v = INT_MIN THEN <<"-">> \o IntMinDigits
    ELSE IF v < 0 THEN <<"-">> \o Decimal(0 - v) ELSE Decimal(v)

\* the "-" that std::to_string and the visualize branch put before a negative
\* long long or floating value
SignText(sign) == IF sign < 0 THEN <<"-">> ELSE <<>>

\* std::to_string of the magnitude of a long long held as digits
Magnitude(digits) == IF digits = <<>> THEN <<"0">> ELSE digits

\* for (i = length - 3; i > 0; i -= 3) valueStr.insert(i, "_")
RECURSIVE Underscored(_)
Underscored(ds) ==
    IF Len(ds) <= 3 THEN ds
    ELSE Underscored(SubSeq(ds, 1, Len(ds) - 3)) \o <<"_">> \o SubSeq(ds, Len(ds) - 2, Len(ds))

\* the digits of digits * 10^e (e < 0) with at least one digit before the point
PadLeft(digits, k) ==
    IF Len(digits) > k THEN digits ELSE Zeros(k + 1 - Len(digits)) \o digits

\* exactly six digits after the point; digits beyond the sixth are cut off
\* here, where printf rounds
SixOf(frac) == IF Len(frac) >= 6 THEN SubSeq(frac, 1, 6) ELSE frac \o Zeros(6 - Len(frac))

\* std::to_string of a float, double or long double: printf "%f"
FixedText(sign, digits, e) ==
    IF e >= 0
    THEN SignText(sign) \o Magnitude(digits \o (IF digits = <<>> THEN <<>> ELSE Zeros(e)))
         \o <<".">> \o Zeros(6)
    ELSE SignText(sign)
         \o SubSeq(PadLeft(digits, 0 - e), 1, Len(PadLeft(digits, 0 - e)) + e)
         \o <<".">>
         \o SixOf(SubSeq(PadLeft(digits, 0 - e), Len(PadLeft(digits, 0 - e)) + e + 1,
                         Len(PadLeft(digits, 0 - e))))

\* the exponent field of printf "%e": a sign and at least two digits
ExpText(x) ==
    (IF x < 0 THEN <<"-">> ELSE <<"+">>)
    \o (IF x < 0 THEN (IF x > -10 THEN <<"0">> ELSE <<>>) \o Decimal(0 - x)
        ELSE (IF x < 10 THEN <<"0">> ELSE <<>>) \o Decimal(x))

\* k digits after the point of the mantissa; digits beyond are cut off here,
\* where printf rounds
MantissaOf(digits, k) ==
    IF Len(digits) > k THEN SubSeq(digits, 2, k + 1)
    ELSE SubSeq(digits, 2, Len(digits)) \o Zeros(k + 1 - Len(digits))

\* printf "%.<k>e"
SciText(sign, digits, e, k) ==
    IF digits = <<>> THEN SignText(sign) \o <<"0", ".">> \o Zeros(k) \o <<"e">> \o ExpText(0)
    ELSE SignText(sign) \o <<digits[1], ".">> \o MantissaOf(digits, k)
         \o <<"e">> \o ExpText(Len(digits) - 1 + e)

\* a string copied as it is
RequotedNever(str) == str

\* the while loop replacing every double quote of the string by an apostrophe
Requoted(str) == [i \in 1..Len(str) |-> IF str[i] = QUOTE THEN "'" ELSE str[i]]

\* Doc::prim_to_str
PrimToStr(d, vis) ==
    CASE d.t = "Char" ->
            IF vis THEN <<"'", CharOfCode(d.n), "'">> ELSE IntToString(d.n)
      [] d.t = "Int" ->
            IF vis THEN (IF d.n < 0 THEN <<"-">> \o Underscored(Decimal(0 - d.n))
                         ELSE Underscored(Decimal(d.n)))
            ELSE IntToString(d.n)
      [] d.t = "LLong" ->
            IF vis THEN SignText(d.n) \o Underscored(Magnitude(d.s))
            ELSE (IF d.s = <<>> THEN <<>> ELSE SignText(d.n)) \o Magnitude(d.s)
      [] d.t = "Float" ->
            IF vis THEN SciText(d.n, d.s, d.e, 4) ELSE FixedText(d.n, d.s, d.e)
      [] d.t = "Double" ->
            IF vis THEN SciText(d.n, d.s, d.e, 8) ELSE FixedText(d.n, d.s, d.e)
      [] d.t = "LDouble" ->
            IF vis THEN SciText(d.n, d.s, d.e, 12) ELSE FixedText(d.n, d.s, d.e)
      [] d.t = "Bool" ->
            IF vis THEN (IF d.n = 1 THEN <<"T", "r", "u", "e">> ELSE <<"F", "a", "l", "s", "e">>)
            ELSE (IF d.n = 1 THEN <<"t", "r", "u", "e">> ELSE <<"f", "a", "l", "s", "e">>)
      [] d.t = "Nullptr" ->
            IF vis THEN <<"N", "u", "l", "l", "P", "t", "r">> ELSE <<"n", "u", "l", "l">>
      [] d.t = "Str" -> <<QUOTE>> \o Requoted(d.s) \o <<QUOTE>>
      [] OTHER -> <<>>

----------------------------------------------------------------------------
(* Doc::str *)

\* an entry of doc_stk: the Doc pointed to, the prefix and the level
Item(doc, str, lvl) == [doc |-> doc, str |-> str, lvl |-> lvl]

\* result.append(char_stk.top() == '}' ? "\n" : ""); result.push_back(char_stk.top())
Closer(c) == (IF c = "}" THEN <<"\n">> ELSE <<>>) \o <<c>>

\* "all docs are pushed to string": every bracket still owed, innermost first
RECURSIVE CloseAll(_)
CloseAll(cs) == IF cs = <<>> THEN <<>> ELSE Closer(Top(cs)) \o CloseAll(Pop(cs))

\* "not the last": the separator after an item followed by a sibling
Separator(lvl, down_lvl, str) ==
    IF lvl = down_lvl
    THEN <<",", " ">> \o (IF str # <<>> THEN <<"\n">> ELSE <<>>)
    ELSE <<>>

\* "this level is finished": the while loop closing levels down to down_lvl
RECURSIVE Unwind(_, _, _, _)
Unwind(lvl, down_lvl, cs, text) ==
    IF lvl > down_lvl /\ cs # <<>>
    THEN Unwind(lvl - 1, down_lvl, Pop(cs),
                text \o Closer(Top(cs))
                     \o (IF lvl - 1 = down_lvl THEN <<",", "\n">> ELSE <<>>))
    ELSE [text |-> text, char_stk |-> cs]

\* a LeafText that spells a void container the same in both modes
LeafTextPlain(h, doc, vis) ==
    IF DocSize(h, doc) = 1 \/ doc.t = "Nullptr" THEN PrimToStr(doc, vis)
    ELSE IF doc.t = "Dict" THEN <<"{", "}">>
    ELSE <<"[", "]">>

\* the text of a primitive or of a void container
LeafText(h, doc, vis) ==
    IF DocSize(h, doc) = 1 \/ doc.t = "Nullptr" THEN PrimToStr(doc, vis)
    ELSE IF doc.t = "Tuple" /\ vis THEN <<"(", "N", "u", "l", "l", ")">>
    ELSE IF doc.t = "Array" /\ vis THEN <<"[", "N", "u", "l", "l", "]">>
    ELSE IF doc.t = "Dict" /\ vis THEN <<"{", "N", "u", "l", "l", "}">>
    ELSE IF doc.t = "Dict" THEN <<"{", "}">>
    ELSE <<"[", "]">>

\* value = -value on the least int or long long: the negation overflows
NegationOverflows(d) ==
    \/ d.t = "Int" /\ d.n = INT_MIN
    \/ d.t = "LLong" /\ d.n < 0 /\ d.s = LLongMinDigits

\* what a build makes of the overflowing negation in the visualize branch:
\* the value is left negative and std::to_string writes a second "-", or
\* the compiler, taking the negated value for positive, writes 0
NegatedMin(d) ==
    {<<"-", "-">> \o Underscored(IF d.t = "Int" THEN IntMinDigits ELSE LLongMinDigits),
     <<"-", "0">>}

\* the texts str may append for a primitive or a void container
LeafTexts(h, doc, vis) ==
    IF vis /\ NegationOverflows(doc) THEN NegatedMin(doc) ELSE {LeafText(h, doc, vis)}

\* what follows the text of a leaf: the closing brackets and separators
AfterLeaf(it, rest, cs) ==
    IF rest = <<>> THEN [text |-> CloseAll(cs), char_stk |-> <<>>]
    ELSE Unwind(it.lvl, Top(rest).lvl, cs, Separator(it.lvl, Top(rest).lvl, it.str))

IsLeaf(h, doc) == ~IsContainer(doc) \/ DocSize(h, doc) = 0

\* a variant of ListItems that pushes the elements first to last
ListItemsForward(o, lvl) == [i \in 1..o.s |-> Item(o.buf[i], <<>>, lvl)]

\* the elements of a Tuple or an Array pushed backwards, "so the first one
\* will be the first out"
ListItems(o, lvl) == [i \in 1..o.s |-> Item(o.buf[o.s + 1 - i], <<>>, lvl)]

\* the entries of a Dict pushed in the iteration order f of the unordered_map
DictItems(m, f, lvl) ==
    [i \in 1..Len(f) |-> Item(m[f[i]], <<QUOTE>> \o f[i].s \o <<QUOTE, ":", " ">>, lvl)]

\* the orders in which an unordered_map may iterate over its keys
Orders(K) == {f \in [1..Cardinality(K) -> K] : \A i, j \in 1..Cardinality(K) : f[i] = f[j] => i = j}

\* x.str(vis): doc_stk.emplace(this, "", 0)
StrCall(x, vis) ==
    /\ pc = "idle"
    /\ pc' = "str"
    /\ visualize' = vis
    /\ doc_stk' = <<Item(docs[x], <<>>, 0)>>
    /\ char_stk' = <<>>
    /\ result' = <<>>
    /\ UNCHANGED <<heap, oob, input, count, ge_stk, res, docs, last, barVars>>

\* an iteration of the loop on a primitive or a void container
StrLeaf ==
    /\ pc = "str"
    /\ doc_stk # <<>>
    /\ IsLeaf(heap, Top(doc_stk).doc)
    /\ \E text \in LeafTexts(heap, Top(doc_stk).doc, visualize) :
           result' = result \o Top(doc_stk).str
                            \o text
                            \o AfterLeaf(Top(doc_stk), Pop(doc_stk), char_stk).text
    /\ char_stk' = AfterLeaf(Top(doc_stk), Pop(doc_stk), char_stk).char_stk
    /\ doc_stk' = Pop(doc_stk)
    /\ UNCHANGED <<heap, oob, input, pc, count, ge_stk, res, docs, last, visualize, barVars>>

\* an iteration of the loop on a non-empty Tuple or Array
StrList ==
    /\ pc = "str"
    /\ doc_stk # <<>>
    /\ ~IsLeaf(heap, Top(doc_stk).doc)
    /\ Top(doc_stk).doc.t \in {"Tuple", "Array"}
    /\ result' = result \o Top(doc_stk).str
                        \o (IF visualize /\ Top(doc_stk).doc.t = "Tuple" THEN <<"(">> ELSE <<"[">>)
    /\ char_stk' = Append(char_stk,
                          IF visualize /\ Top(doc_stk).doc.t = "Tuple" THEN ")" ELSE "]")
    /\ doc_stk' = Pop(doc_stk) \o ListItems(heap[Top(doc_stk).doc.n], Top(doc_stk).lvl + 1)
    /\ UNCHANGED <<heap, oob, input, pc, count, ge_stk, res, docs, last, visualize, barVars>>

\* an iteration of the loop on a non-empty Dict
StrDict ==
    /\ pc = "str"
    /\ doc_stk # <<>>
    /\ ~IsLeaf(heap, Top(doc_stk).doc)
    /\ Top(doc_stk).doc.t = "Dict"
    /\ result' = result \o Top(doc_stk).str \o <<"{", "\n">>
    /\ char_stk' = Append(char_stk, "}")
    /\ \E f \in Orders(DOMAIN heap[Top(doc_stk).doc.n].m) :
           doc_stk' = Pop(doc_stk)
                      \o DictItems(heap[Top(doc_stk).doc.n].m, f, Top(doc_stk).lvl + 1)
    /\ UNCHANGED <<heap, oob, input, pc, count, ge_stk, res, docs, last, visualize, barVars>>

\* return result, the caller being string_to_doc(x.str(false), false)
StrReturn ==
    /\ pc = "str"
    /\ doc_stk = <<>>
    /\ input' = result
    /\ pc' = "start"
    /\ count' = 0
    /\ UNCHANGED <<heap, oob, ge_stk, res, docs, last, strVars, barVars>>

----------------------------------------------------------------------------
(* Document trees built through the API, rendered by Doc::str(false) and   *)
(* parsed back by string_to_doc.                                           *)

MaxKids == 2
MaxNest == 2

\* a tree to build: a primitive Doc, or a container kind with its children
\* and, for a Dict, the key each child is upserted under
Leaf(d) == [d |-> d, kids |-> <<>>, keys |-> <<>>]
Node(t, kids, keys) == [d |-> DocPtr(t, 0), kids |-> kids, keys |-> keys]

\* the C strings passed as keys: two buffers holding "k" and one holding "j"
TreeKeys == ApiKeys \cup {Key(3, <<"j">>)}

\* the primitive values passed
Prims ==
    Values \cup {DocNull, DocBool(FALSE), DocInt(-7), DocInt(1000000000),
                 DocStr(<<"a", QUOTE, ":", "]">>),
                 DocLLong(-1, <<"1", "2", "3", "4", "5", "6", "7", "8", "9", "0">>)}

\* key sequences without repetition, of length at most k
KeySeqs(k) == {q \in SeqsUpTo(TreeKeys, k) : \A i, j \in 1..Len(q) : q[i] = q[j] => i = j}

\* the containers whose children are drawn from S
Containers(S, k) ==
    {Node("Array", q, <<>>) : q \in SeqsUpTo(S, k)}
    \cup {Node("Tuple", q, <<>>) : q \in SeqsUpTo(S, k)}
    \cup {Node("Dict", q, ks) : <<q, ks>> \in {c \in SeqsUpTo(S, k) \X KeySeqs(k) :
                                                 /\ Len(c[1]) = Len(c[2])
                                                 /\ \A i \in 1..Len(c[2]) :
                                                        i > 1 => c[2][i - 1].p < c[2][i].p}}

\* a tree put into one more container, alone or beside a sibling
Nest1(S) ==
    {Node("Tuple", <<t>>, <<>>) : t \in S}
    \cup {Node("Array", <<t, Leaf(DocInt(7))>>, <<>>) : t \in S}
    \cup {Node("Dict", <<t>>, <<Key(1, <<"k">>)>>) : t \in S}
    \cup {Node("Dict", <<t, Leaf(DocInt(7))>>, <<Key(1, <<"k">>), Key(3, <<"j">>)>>) : t \in S}

RECURSIVE Nested(_, _)
Nested(k, S) == IF k = 0 THEN S ELSE S \cup Nested(k - 1, Nest1(S))

SmallLeaves == {Leaf(DocInt(7)), Leaf(DocStr(<<"a">>))}

\* every primitive alone and in one container; every container of at most
\* MaxKids small leaves, in up to MaxNest more containers
Trees ==
    {Leaf(d) : d \in Prims}
    \cup Nest1({Leaf(d) : d \in Prims})
    \cup Nested(MaxNest, Containers(SmallLeaves, MaxKids))

\* the container of a tree once its children are built: emplace_back for an
\* Array, upsert for a Dict, get_tuple().set_values for a Tuple
RECURSIVE Filled(_, _, _, _)
Filled(o, tree, built, i) ==
    IF o.kind = "Tuple" THEN (IF built = <<>> THEN o ELSE TupleSetValues(o, built))
    ELSE IF i > Len(built) THEN o
    ELSE IF o.kind = "Array" THEN Filled(ArrEmplaceBack(o, built[i]).o, tree, built, i + 1)
    ELSE Filled([o EXCEPT !.m = MapSet(@, tree.keys[i], built[i])], tree, built, i + 1)

\* Doc x(type), then the children built one after the other, then x filled
RECURSIVE Build(_, _), BuildKids(_, _, _, _), BuildOn(_, _, _, _)
Build(h, tree) ==
    IF ~IsContainer(tree.d) THEN [heap |-> h, doc |-> tree.d]
    ELSE BuildKids(AllocDoc(h, tree.d.t).heap, AllocDoc(h, tree.d.t).doc, tree, <<>>)

BuildKids(h, doc, tree, built) ==
    IF Len(built) = Len(tree.kids)
    THEN [heap |-> [h EXCEPT ![doc.n] = Filled(@, tree, built, 1)], doc |-> doc]
    ELSE BuildOn(Build(h, tree.kids[Len(built) + 1]), doc, tree, built)

\* the building goes on after the child b
BuildOn(b, doc, tree, built) == BuildKids(b.heap, doc, tree, Append(built, b.doc))

\* Doc a holds a tree; b stays null
TreeInit ==
    /\ \E tree \in Trees :
           /\ heap = Build(<<>>, tree).heap
           /\ docs = [x \in Names |-> IF x = "a" THEN Build(<<>>, tree).doc ELSE DocNull]
    /\ oob = FALSE
    /\ input = <<>>
    /\ pc = "idle"
    /\ count = 0
    /\ ge_stk = <<>>
    /\ res = DocNull
    /\ last = Called(TRUE, FALSE)
    /\ visualize = FALSE
    /\ doc_stk = <<>>
    /\ char_stk = <<>>
    /\ result = <<>>
    /\ show_bar = FALSE
    /\ percentage = 0

\* string_to_doc(a.str(false), false)
RoundTripNext ==
    \/ StrCall("a", FALSE)
    \/ StrLeaf
    \/ StrList
    \/ StrDict
    \/ StrReturn
    \/ ParseOpenRoot
    \/ ParsePrimRoot
    \/ SkipSpace
    \/ SkipComma
    \/ CloseFrame
    \/ DictEntry
    \/ ArrElem

SpecRoundTrip == TreeInit /\ [][RoundTripNext]_vars

----------------------------------------------------------------------------
(* Properties of the round trip *)

\* the value of a node: kind, payload, children in order, entries by key text
Val(t, n, str, e, kids, ents) ==
    [t |-> t, n |-> n, s |-> str, e |-> e, kids |-> kids, ents |-> ents]

\* the tree of values under a Doc.  A Dict counts its entries and holds them
\* as pairs of key text and value; the digits of a floating value are left
\* out, its text being cut to six decimals.
RECURSIVE TreeOf(_, _)
TreeOf(h, d) ==
    IF d.t \in {"Tuple", "Array"}
    THEN Val(d.t, 0, <<>>, 0, [i \in 1..h[d.n].s |-> TreeOf(h, h[d.n].buf[i])], {})
    ELSE IF d.t = "Dict"
    THEN Val(d.t, Cardinality(DOMAIN h[d.n].m), <<>>, 0, <<>>,
             {<<k.s, TreeOf(h, h[d.n].m[k])>> : k \in DOMAIN h[d.n].m})
    ELSE IF d.t \in {"Float", "Double", "LDouble"}
    THEN Val(d.t, 0, <<>>, 0, <<>>, {})
    ELSE Val(d.t, d.n, d.s, d.e, <<>>, {})

\* the number a digit sequence denotes
RECURSIVE NatOf(_)
NatOf(ds) == IF ds = <<>> THEN 0 ELSE NatOf(Pop(ds)) * 10 + DigitVal(Top(ds))

\* what the plain text of a tree denotes: a Tuple is an Array, a Char is the
\* Int of its code, an integer is an Int up to 9 digits, a LLong up to 16 and
\* a Double beyond, a floating value is a Double, and a string has its double
\* quotes turned into apostrophes
RECURSIVE Image(_)
Image(v) ==
    CASE v.t = "Char" -> Val("Int", v.n, <<>>, 0, <<>>, {})
      [] v.t = "Int" ->
            IF v.n > -1000000000 /\ v.n < 1000000000 THEN v
            ELSE Val("LLong", IF v.n < 0 THEN -1 ELSE 1,
                     ToDigits(IF v.n < 0 THEN 0 - v.n ELSE v.n), 0, <<>>, {})
      [] v.t = "LLong" ->
            IF Len(v.s) <= 9 THEN Val("Int", v.n * NatOf(v.s), <<>>, 0, <<>>, {})
            ELSE IF Len(v.s) <= 16 THEN v
            ELSE Val("Double", 0, <<>>, 0, <<>>, {})
      [] v.t \in {"Float", "Double", "LDouble"} -> Val("Double", 0, <<>>, 0, <<>>, {})
      [] v.t = "Str" -> Val("Str", v.n, Requoted(v.s), 0, <<>>, {})
      [] v.t \in {"Tuple", "Array"} ->
            Val("Array", 0, <<>>, 0, [i \in 1..Len(v.kids) |-> Image(v.kids[i])], {})
      [] v.t = "Dict" ->
            Val("Dict", v.n, <<>>, 0, <<>>, {<<en[1], Image(en[2])>> : en \in v.ents})
      [] OTHER -> v

\* C1 as stated: string_to_doc(a.str(false)) is a tree equal to a, with the
\* same kind and the same primitive value at every node and the same
\* structure, Dict entries being compared by key text whatever their order.
C1_RoundTrip ==
    pc = "done" => TreeOf(heap, res) = TreeOf(heap, docs["a"])

\* C1 as amended: the text a.str(false) of a tree is accepted by string_to_doc
\* without a malformed-input path or an access outside a buffer, and the tree
\* returned is the image of a: the same structure and Dict entries, each node
\* being what its text denotes.
C1_RoundTripImage ==
    /\ ~oob
    /\ pc \notin {"abort", "final"}
    /\ pc = "start" =>
           /\ NonBlank(input)
           /\ \/ IsBracketed(FirstCh(input), LastCh(input))
              \/ IsPrimRoot(FirstCh(input), LastCh(input))
    /\ pc = "loop" => count < Len(input)
    /\ pc = "done" => TreeOf(heap, res) = Image(TreeOf(heap, docs["a"]))

\* a Dict of two entries, one of them a container holding a non-empty
\* container, has been rendered and parsed back
C1_Witness ==
    /\ pc = "done"
    /\ docs["a"].t = "Dict"
    /\ Cardinality(DOMAIN heap[docs["a"].n].m) = 2
    /\ \E k \in DOMAIN heap[docs["a"].n].m :
           /\ IsContainer(heap[docs["a"].n].m[k])
           /\ \E c \in ChildAddrs(heap, heap[docs["a"].n].m[k].n) :
                  ChildAddrs(heap, c) # {} \/ heap[c].s > 0 \/ DOMAIN heap[c].m # {}
    /\ res.t = "Dict"
    /\ TreeOf(heap, res) = Image(TreeOf(heap, docs["a"]))

----------------------------------------------------------------------------
(* Numeric literals given to string_to_doc as the whole text: an optional  *)
(* sign, at most MaxDigits digits with an optional point, and an optional  *)
(* exponent.                                                               *)

MaxDigits == 18

\* 1234567890123...
Counting(n) == [i \in 1..n |-> DigitChars[(i % 10) + 1]]

\* digit strings of length n: one digit repeated, or counting up
DigitRuns(n) == {[i \in 1..n |-> d] : d \in {"0", "1", "9"}} \cup {Counting(n)}

\* the digits as they are, or with a point before, after the first or at the end
WithPoint(ds) ==
    {ds} \cup {SubSeq(ds, 1, k) \o <<".">> \o SubSeq(ds, k + 1, Len(ds)) : k \in {0, 1, Len(ds)}}

Signs == {<<>>, <<"-">>, <<"+">>}
Exponents == {<<>>, <<"e", "3">>, <<"E", "-", "2">>, <<"e", "+", "1">>, <<"e">>}

Literals ==
    {sg \o m \o ex : sg \in Signs, ex \in Exponents,
                     m \in UNION {WithPoint(ds) : ds \in UNION {DigitRuns(n) : n \in 1..MaxDigits}}}

LiteralInit ==
    /\ input \in Literals
    /\ heap = <<>>
    /\ oob = FALSE
    /\ pc = "start"
    /\ count = 0
    /\ ge_stk = <<>>
    /\ res = DocNull
    /\ docs = <<>>
    /\ last = <<>>
    /\ visualize = FALSE
    /\ doc_stk = <<>>
    /\ char_stk = <<>>
    /\ result = <<>>
    /\ show_bar = FALSE
    /\ percentage = 0

SpecLiteral == LiteralInit /\ [][ParsePrimRoot]_vars

\* the text is one or more digits and nothing else
AllDigits(text) == Len(text) > 0 /\ \A i \in 1..Len(text) : text[i] \in DigitSet

\* C11 as stated: parsing an all-digit literal of exactly 9 digits yields a
\* 64-bit integer (LLong) document.
C11_NineDigitsLLong ==
    (pc = "done" /\ AllDigits(input) /\ Len(input) = 9) => res.t = "LLong"

\* C11 as amended: parsing an all-digit literal of exactly 9 digits yields
\* the Int document of its value; a literal of exactly 10 digits is the
\* shortest that yields a LLong.
C11_NineDigitsInt ==
    /\ (pc = "done" /\ AllDigits(input) /\ Len(input) = 9) => res = DocInt(NatOf(input))
    /\ (pc = "done" /\ AllDigits(input) /\ Len(input) = 10) => res.t = "LLong"

\* 123456789 has been parsed
C11_Witness ==
    /\ pc = "done"
    /\ input = Counting(9)
    /\ res = DocInt(123456789)

\* the literal without its sign
Unsigned(text) ==
    IF Len(text) > 0 /\ text[1] \in {"-", "+"} THEN SubSeq(text, 2, Len(text)) ELSE text

HasPointOrExp(text) == \E i \in 1..Len(text) : text[i] \in {".", "e", "E"}

\* the order in which the scanner's kind widens
Rank(t) == CASE t = "Int" -> 1 [] t = "LLong" -> 2 [] OTHER -> 3

\* C12: within one numeric literal the kind inferred only widens (Int, then
\* LLong, then floating): the kind reached after any prefix is not wider than
\* the kind reached after the whole literal.  An all-digit literal of 17 or
\* more digits, and any literal with a point or an exponent, yields a floating
\* document; an all-digit literal of 10 to 16 digits yields a LLong.
C12_KindOnlyWidens ==
    pc = "done" =>
        /\ \A k \in 1..Len(input) :
               Rank(ScanNumber(SubSeq(input, 1, k), 0).t) <= Rank(ScanNumber(input, 0).t)
        /\ (AllDigits(Unsigned(input)) /\ Len(Unsigned(input)) >= 17)
               => res.t \in {"Float", "Double", "LDouble"}
        /\ HasPointOrExp(input) => res.t \in {"Float", "Double", "LDouble"}
        /\ (AllDigits(Unsigned(input)) /\ Len(Unsigned(input)) \in 10..16) => res.t = "LLong"

\* a literal of 17 digits has been parsed to a Double, its first 16 digits
\* alone being a LLong
C12_Witness ==
    /\ pc = "done"
    /\ input = Counting(17)
    /\ res.t = "Double"
    /\ ScanNumber(Counting(16), 0).t = "LLong"
    /\ ScanNumber(Counting(9), 0).t = "Int"

----------------------------------------------------------------------------
(* Dict texts in which the value of key "a" is a truncated keyword *)

Keywords == {<<"t", "r", "u", "e">>, <<"f", "a", "l", "s", "e">>, <<"n", "u", "l", "l">>}

\* the proper, non-empty prefixes of the keywords
Truncated == {SubSeq(kw, 1, k) : <<kw, k>> \in {c \in Keywords \X (1..4) : c[2] < Len(c[1])}}

KeyA == <<QUOTE, "a", QUOTE, ":">>
KeyB == <<QUOTE, "b", QUOTE, ":">>

TruncatedDicts ==
    {<<"{">> \o KeyA \o sp \o p \o tail :
        sp \in {<<>>, <<" ">>}, p \in Truncated,
        tail \in {<<"}">>, <<" ", "}">>, <<"\n", "}">>, <<",", " ">> \o KeyB \o <<" ", "1", "}">>}}
    \cup {<<"{">> \o KeyB \o <<"1", ",">> \o KeyA \o <<" ">> \o p \o <<"}">> : p \in Truncated}
    \cup {<<"{">> \o KeyA \o <<" ">> \o p \o <<",">> \o KeyB \o <<" ">> \o q \o <<"}">> :
            p \in Truncated, q \in Truncated}

TruncatedInit ==
    /\ input \in TruncatedDicts
    /\ heap = <<>>
    /\ oob = FALSE
    /\ pc = "start"
    /\ count = 0
    /\ ge_stk = <<>>
    /\ res = DocNull
    /\ docs = <<>>
    /\ last = <<>>
    /\ visualize = FALSE
    /\ doc_stk = <<>>
    /\ char_stk = <<>>
    /\ result = <<>>
    /\ show_bar = FALSE
    /\ percentage = 0

\* the steps string_to_doc takes on these texts
TruncatedNext ==
    \/ ParseOpenRoot
    \/ SkipSpace
    \/ SkipComma
    \/ CloseFrame
    \/ DictEntry

SpecTruncated == TruncatedInit /\ [][TruncatedNext]_vars

\* C13: parsing a Dict text in which the value of a key is a truncated
\* keyword does not abort (no fault, no access outside the text, no other
\* path of the parser taken) and yields a Dict in which that key maps to a
\* null document.
C13_TruncatedIsNull ==
    /\ ~oob
    /\ pc \notin {"abort", "final"}
    /\ pc = "start" => (NonBlank(input) /\ IsBracketed(FirstCh(input), LastCh(input)))
    /\ pc = "loop" => (count < Len(input) /\ ~(IsElemStart(CharAt(input, count)) /\ Top(ge_stk).t # "Dict"))
    /\ pc = "done" =>
           /\ res.t = "Dict"
           /\ \E k \in DOMAIN heap[res.n].m : k.s = <<"a">> /\ heap[res.n].m[k] = DocNull

\* {"a": tru} has been parsed
C13_Witness ==
    /\ pc = "done"
    /\ input = <<"{">> \o KeyA \o <<" ", "t", "r", "u", "}">>
    /\ res.t = "Dict"
    /\ Cardinality(DOMAIN heap[res.n].m) = 1
    /\ \A k \in DOMAIN heap[res.n].m : k.s = <<"a">> /\ heap[res.n].m[k] = DocNull

\* ---------------------------------------------------------------------
\*  Empty and blank texts (Joson.cpp 195-216)
\* ---------------------------------------------------------------------

\* every character of the text is one the two trimming loops skip
Blank(inp) == \A i \in 1..Len(inp) : IsTrim(inp[i])

\* C14: for an empty text, or a text of whitespace and NUL characters only,
\* string_to_doc returns a null document, reads nothing outside the text
\* and creates no container.
C14_BlankIsNull ==
    (Blank(input) /\ pc # "start") =>
        /\ pc = "done"
        /\ res = DocNull
        /\ ~oob
        /\ heap = <<>>
        /\ ge_stk = <<>>

----------------------------------------------------------------------------
(* Doc::erase by key text *)

\* the keys of map m whose text is that of key k
SameText(m, k) == {j \in DOMAIN m : j.s = k.s}

\* C15: erase(key) on a Dict returns true and removes exactly one entry, one
\* whose key text is that of key, when the Dict has such an entry, leaving
\* every other entry as it was; it returns false and leaves the Dict
\* unchanged when no entry has that key text.
C15_EraseByText ==
    [][\A x \in Names, k \in ApiKeys :
          (Erase(x, k) /\ docs[x].t = "Dict") =>
              IF SameText(heap[docs[x].n].m, k) # {}
              THEN /\ last'.ok /\ last'.ret
                   /\ \E j \in SameText(heap[docs[x].n].m, k) :
                         heap'[docs[x].n].m = MapErase(heap[docs[x].n].m, j)
                   /\ DocSize(heap', docs[x]) = DocSize(heap, docs[x]) - 1
              ELSE /\ last'.ok /\ ~last'.ret
                   /\ heap' = heap]_vars

----------------------------------------------------------------------------
(* The container calls of Doc on Docs of every kind *)

\* an operator() whose bound test is index > size
DocAtPastEnd(h, d, index) ==
    IF d.alt \in {"DocArr*", "DocTuple*"}
    THEN IF index > h[d.n].s
         THEN [err |-> "out_of_range", elem |-> DocNull, oob |-> FALSE]
         ELSE [err |-> "none",
               elem |-> IF index < Len(h[d.n].buf) THEN h[d.n].buf[index + 1] ELSE DocNull,
               oob |-> ~(index < Len(h[d.n].buf))]
    ELSE [err |-> "runtime_error", elem |-> DocNull, oob |-> FALSE]

\* Doc::operator()(size_t index) const, with DocArr::operator[] and
\* DocTuple::operator[]: err names the exception thrown, elem is the Doc
\* referred to, oob tells a read outside the buffer
DocAt(h, d, index) ==
    IF d.alt \in {"DocArr*", "DocTuple*"}
    THEN IF index >= h[d.n].s
         THEN [err |-> "out_of_range", elem |-> DocNull, oob |-> FALSE]
         ELSE [err |-> "none",
               elem |-> IF index < Len(h[d.n].buf) THEN h[d.n].buf[index + 1] ELSE DocNull,
               oob |-> ~(index < Len(h[d.n].buf))]
    ELSE [err |-> "runtime_error", elem |-> DocNull, oob |-> FALSE]

\* x(index)
At(x, index) ==
    /\ pc = "idle"
    /\ last' = [ok |-> DocAt(heap, docs[x], index).err = "none", ret |-> FALSE,
                err |-> DocAt(heap, docs[x], index).err,
                elem |-> DocAt(heap, docs[x], index).elem]
    /\ oob' = (oob \/ DocAt(heap, docs[x], index).oob)
    /\ UNCHANGED <<heap, input, pc, count, ge_stk, res, docs, strVars, barVars>>

\* Doc a; constructed from a Type of any kind, again and again, then the calls
\* upsert, erase, operator[], emplace_back, pop_back, set_values and
\* operator(), with the temporary Doc(7) as the value stored
KindNext ==
    \/ \E t \in Types : CtorType("a", t)
    \/ \E k \in ApiKeys : Upsert("a", k, DocInt(7))
    \/ \E k \in ApiKeys : Erase("a", k)
    \/ \E k \in ApiKeys : Index("a", k)
    \/ EmplaceBack("a", DocInt(7))
    \/ PopBack("a")
    \/ \E vals \in SeqsUpTo({DocInt(7)}, MaxElems) : SetValues("a", vals)
    \/ \E index \in 0..MaxElems : At("a", index)

SpecKind == ApiInit /\ [][KindNext]_vars

\* the call threw and neither a Doc nor a container changed
Refused == ~last'.ok /\ docs' = docs /\ heap' = heap

\* C16: upsert, erase and operator[] on a Doc that is not a Dict, and
\* emplace_back and pop_back on a Doc that is not an Array, throw and leave
\* every Doc and every container as it was.
C16_WrongKindThrows ==
    [][\A x \in Names :
          /\ (docs[x].t # "Dict" /\ \E k \in ApiKeys :
                  \/ Upsert(x, k, DocInt(7))
                  \/ Erase(x, k)
                  \/ Index(x, k)) => Refused
          /\ (docs[x].t # "Array" /\ (PopBack(x) \/ EmplaceBack(x, DocInt(7))))
                 => Refused]_vars

\* a Str that refused a container call, after a Dict and an Array that
\* accepted theirs
C16_Witness ==
    /\ ~last.ok
    /\ docs["a"].t = "Str"
    /\ \E i, j \in 1..Len(heap) :
          /\ heap[i].kind = "Dict" /\ DOMAIN heap[i].m # {}
          /\ heap[j].kind = "Array" /\ heap[j].s > 0

\* the call x(index) was the step taken
IsAt(x, index) == At(x, index) /\ "err" \in DOMAIN last'

\* C17: x(index) on an Array or a Tuple returns the element at index when
\* index < size() and throws out_of_range when index >= size(), reading
\* nothing outside the buffer; on every other kind it throws the wrong-kind
\* error; no Doc and no container is changed by the call.
C17_IndexedRead ==
    [][\A x \in Names, index \in 0..MaxElems :
          IsAt(x, index) =>
              /\ docs' = docs /\ heap' = heap /\ oob' = oob
              /\ IF docs[x].t \in {"Array", "Tuple"}
                 THEN IF index < DocSize(heap, docs[x])
                      THEN /\ last'.err = "none"
                           /\ index < Len(heap[docs[x].n].buf)
                           /\ last'.elem = heap[docs[x].n].buf[index + 1]
                      ELSE last'.err = "out_of_range"
                 ELSE last'.err = "runtime_error"]_vars

\* the second element of a Tuple of two was read, after a Tuple that was
\* default-constructed and never given values
C17_Witness ==
    /\ "err" \in DOMAIN last
    /\ last.err = "none" /\ last.elem = DocInt(7)
    /\ docs["a"].t = "Tuple" /\ DocSize(heap, docs["a"]) = 2
    /\ \E i \in 1..Len(heap) : heap[i].kind = "Tuple" /\ heap[i].nul

----------------------------------------------------------------------------
(* Size and capacity of DocArr *)

\* DocArr a; DocArr b(c);
CapInit ==
    /\ heap \in {<<NewArr, NewArrCap(c)>> : c \in 0..MaxCap}
    /\ oob = FALSE
    /\ input = <<>>
    /\ pc = "idle"
    /\ count = 0
    /\ ge_stk = <<>>
    /\ res = DocNull
    /\ docs = [x \in Names |-> DocNull]
    /\ last = Called(TRUE, FALSE)
    /\ visualize = FALSE
    /\ doc_stk = <<>>
    /\ char_stk = <<>>
    /\ result = <<>>
    /\ show_bar = FALSE
    /\ percentage = 0

\* the calls that change an array, on a and on b
CapNext ==
    \/ \E a \in 1..Len(heap) : ArrEmplace(a)
    \/ \E a \in 1..Len(heap) : ArrPop(a)
    \/ \E a \in 1..Len(heap), pos \in 0..MaxElems : ArrSet(a, pos)
    \/ \E a \in 1..Len(heap), n \in 0..MaxElems : ArrSetAll(a, n)
    \/ \E a \in 1..Len(heap), c \in 0..MaxCap : ArrResize(a, c)
    \/ \E a, b \in 1..Len(heap) : ArrAssign(a, b)

SpecCap == CapInit /\ [][CapNext]_vars

\* C18: pop_back on an empty array returns false and leaves the size at 0; a
\* pop_back on a non-empty array returns true and decreases the size by
\* exactly 1; the size is never below 0; Doc::pop_back on an Array Doc that
\* holds the array gives the same result.
C18_PopSize ==
    [][\A a \in 1..Len(heap) :
          ArrPop(a) =>
              /\ heap'[a].s \in Nat
              /\ IF heap[a].s = 0
                 THEN ~last'.ret /\ heap'[a].s = 0
                 ELSE last'.ret /\ heap'[a].s = heap[a].s - 1
              /\ DocPopBack(heap, DocPtr("Array", a)).ok
              /\ DocPopBack(heap, DocPtr("Array", a)).popped = last'.ret
              /\ DocPopBack(heap, DocPtr("Array", a)).heap = heap']_vars

\* the array a was emptied by a pop that returned true, its one element
\* still in the first slot, while b is empty
C18_Witness ==
    /\ last.ret
    /\ heap[1].s = 0 /\ heap[1].cap = DefaultCap
    /\ heap[1].buf[1] = DocInt(7)
    /\ heap[2].s = 0

\* the pushes made on one array
MaxPushes == 17

\* a.emplace_back(Doc(7)) on an array that may grow past its first buffer
Push(a) ==
    /\ pc = "idle"
    /\ IsArr(a)
    /\ heap[a].s < MaxPushes
    /\ heap' = [heap EXCEPT ![a] = ArrEmplaceBack(@, DocInt(7)).o]
    /\ oob' = (oob \/ ArrEmplaceBack(heap[a], DocInt(7)).oob)
    /\ last' = Called(TRUE, FALSE)
    /\ UNCHANGED <<input, pc, count, ge_stk, res, docs, strVars, barVars>>

\* DocArr a; DocArr b; and pushes on either
GrowNext ==
    \/ ArrCtor(NewArr)
    \/ \E a \in 1..Len(heap) : Push(a)

SpecGrow == ApiInit /\ [][GrowNext]_vars

\* the smallest of c, 2c, 4c, ... that is >= n
RECURSIVE Grown(_, _)
Grown(c, n) == IF c >= n THEN c ELSE Grown(2 * c, n)

\* C19: a default-constructed DocArr has size 0 and capacity 8; emplace_back
\* doubles the capacity of a full array and leaves that of a non-full array
\* unchanged; after n pushes on a fresh array the size is n, the capacity is
\* the smallest of 8, 16, 32, ... that is >= n, and the n elements are in the
\* buffer.
C19_CapacityGrowth ==
    /\ [](\A a \in 1..Len(heap) :
             /\ heap[a].cap = Grown(8, heap[a].s)
             /\ Len(heap[a].buf) = heap[a].cap
             /\ \A i \in 1..heap[a].cap :
                   heap[a].buf[i] = IF i <= heap[a].s THEN DocInt(7) ELSE DocNull)
    /\ []~oob
    /\ [][ArrCtor(NewArr) => (heap'[Len(heap')].s = 0 /\ heap'[Len(heap')].cap = 8)]_vars
    /\ [][\A a \in 1..Len(heap) :
             Push(a) => /\ heap'[a].s = heap[a].s + 1
                        /\ heap'[a].cap = IF heap[a].s = heap[a].cap
                                          THEN 2 * heap[a].cap ELSE heap[a].cap]_vars

\* nine pushes on one fresh array and seventeen on another
C19_Witness ==
    /\ Len(heap) = 2
    /\ heap[1].s = 9 /\ heap[1].cap = 16
    /\ heap[2].s = 17 /\ heap[2].cap = 32

\* a call on array a that is neither a resize nor a copy-assignment
Updates(a) ==
    \/ ArrEmplace(a)
    \/ ArrPop(a)
    \/ \E pos \in 0..MaxElems : ArrSet(a, pos)
    \/ \E n \in 0..MaxElems : ArrSetAll(a, n)

\* C20 as stated: emplace_back, pop_back, set_value, set_values and
\* copy-assignment all leave the capacity of the array unchanged or larger.
C20_CapacityNeverShrinks ==
    [][\A a \in 1..Len(heap) :
          (Updates(a) \/ \E b \in 1..Len(heap) : ArrAssign(a, b))
              => heap'[a].cap >= heap[a].cap]_vars

\* C20: emplace_back, pop_back, set_value and set_values leave the capacity
\* of the array unchanged or larger; copy-assignment gives the array the
\* capacity of the array assigned from.
C20_CapacityAcrossCalls ==
    [][\A a \in 1..Len(heap) :
          /\ Updates(a) => heap'[a].cap >= heap[a].cap
          /\ \A b \in 1..Len(heap) :
                ArrAssign(a, b) => heap'[a].cap = heap[b].cap]_vars

\* the array a, constructed with capacity 8, has the size, the capacity and
\* the one element of b
C20_Witness ==
    /\ heap[1].s = 1 /\ heap[1].cap = 1 /\ heap[1].buf = <<DocInt(7)>>
    /\ heap[2] = heap[1]

----------------------------------------------------------------------------
(* Rendering of documents built by the client through calls on its Docs *)

\* the deepest nesting of brackets followed by the renderer
MaxDepth == 3

\* Doc a, b; each made a container, filled by emplace_back and upsert with
\* Doc(7) or with a Doc of the client, then rendered by str(vis)
RenderNext ==
    \/ \E x \in Names, t \in {"Array", "Dict", "Tuple"} : CtorType(x, t)
    \/ \E x \in Names, src \in Sources : EmplaceBack(x, ArgOf(src))
    \/ \E x \in Names, k \in ApiKeys, src \in Sources : Upsert(x, k, ArgOf(src))
    \/ \E x \in Names, vis \in BOOLEAN : StrCall(x, vis)
    \/ StrLeaf
    \/ (Len(char_stk) < MaxDepth /\ StrList)
    \/ (Len(char_stk) < MaxDepth /\ StrDict)
    \/ StrReturn

SpecRender == ApiInit /\ [][RenderNext]_vars

\* how many containers the text shows: each is announced by one opening
\* bracket, also when it is void
RECURSIVE Openers(_)
Openers(text) ==
    IF text = <<>> THEN 0
    ELSE (IF text[1] \in {"[", "(", "{"} THEN 1 ELSE 0) + Openers(Tail(text))

\* C21: str emits each node of the document once and comes to an end: the
\* text never shows more containers than exist, and the brackets still to
\* be closed are never more than the containers that exist.
C21_RenderOnce ==
    pc = "str" => (Openers(result) <= Len(heap) /\ Len(char_stk) <= Len(heap))

----------------------------------------------------------------------------
(* The spellings of Doc::str in its two modes *)

\* a.str(false) and a.str(true) on a document tree
SpellNext ==
    \/ \E vis \in BOOLEAN : StrCall("a", vis)
    \/ StrLeaf
    \/ StrList
    \/ StrDict
    \/ StrReturn

SpecSpell == TreeInit /\ [][SpellNext]_vars

\* the text in plain mode or the text in visualized mode
Spelt(plain, vis) == result = IF visualize THEN vis ELSE plain

\* the rendering of Doc a is complete
Rendered == pc = "str" /\ doc_stk = <<>>

\* the only element of the list held by Doc a
OnlyElem == heap[docs["a"].n].buf[1]

\* C22: a boolean is spelt true/false in plain mode and True/False in
\* visualized mode, null is null / NullPtr, a void Dict {} / {Null}, a void
\* Array [] / [Null], a void Tuple [] / (Null); a non-empty Tuple is put
\* between [ ] in plain mode and ( ) in visualized mode, a non-empty Array
\* between [ ] in both; the same spellings are used for an element.
C22_ModeSpellings ==
    Rendered =>
        /\ docs["a"] = DocBool(TRUE) =>
               Spelt(<<"t", "r", "u", "e">>, <<"T", "r", "u", "e">>)
        /\ docs["a"] = DocBool(FALSE) =>
               Spelt(<<"f", "a", "l", "s", "e">>, <<"F", "a", "l", "s", "e">>)
        /\ docs["a"] = DocNull =>
               Spelt(<<"n", "u", "l", "l">>, <<"N", "u", "l", "l", "P", "t", "r">>)
        /\ (docs["a"].t = "Dict" /\ DocSize(heap, docs["a"]) = 0) =>
               Spelt(<<"{", "}">>, <<"{", "N", "u", "l", "l", "}">>)
        /\ (docs["a"].t = "Array" /\ DocSize(heap, docs["a"]) = 0) =>
               Spelt(<<"[", "]">>, <<"[", "N", "u", "l", "l", "]">>)
        /\ (docs["a"].t = "Tuple" /\ DocSize(heap, docs["a"]) = 0) =>
               Spelt(<<"[", "]">>, <<"(", "N", "u", "l", "l", ")">>)
        /\ (docs["a"].t = "Tuple" /\ DocSize(heap, docs["a"]) > 0) =>
               /\ result[1] = IF visualize THEN "(" ELSE "["
               /\ result[Len(result)] = IF visualize THEN ")" ELSE "]"
        /\ (docs["a"].t = "Array" /\ DocSize(heap, docs["a"]) > 0) =>
               /\ result[1] = "["
               /\ result[Len(result)] = "]"
        /\ (docs["a"].t = "Tuple" /\ DocSize(heap, docs["a"]) = 1) =>
               /\ OnlyElem = DocBool(TRUE) =>
                      Spelt(<<"[", "t", "r", "u", "e", "]">>, <<"(", "T", "r", "u", "e", ")">>)
               /\ OnlyElem = DocNull =>
                      Spelt(<<"[", "n", "u", "l", "l", "]">>,
                            <<"(", "N", "u", "l", "l", "P", "t", "r", ")">>)
               /\ (OnlyElem.t = "Dict" /\ DocSize(heap, OnlyElem) = 0) =>
                      Spelt(<<"[", "{", "}", "]">>,
                            <<"(", "{", "N", "u", "l", "l", "}", ")">>)
               /\ (OnlyElem.t = "Tuple" /\ DocSize(heap, OnlyElem) = 0) =>
                      Spelt(<<"[", "[", "]", "]">>,
                            <<"(", "(", "N", "u", "l", "l", ")", ")">>)
               /\ (OnlyElem.t = "Array" /\ DocSize(heap, OnlyElem) = 0) =>
                      Spelt(<<"[", "[", "]", "]">>,
                            <<"(", "[", "N", "u", "l", "l", "]", ")">>)

\* a Tuple whose only element is a void Dict, rendered in visualized mode
C22_Witness ==
    /\ Rendered
    /\ visualize
    /\ docs["a"].t = "Tuple" /\ DocSize(heap, docs["a"]) = 1
    /\ OnlyElem.t = "Dict" /\ DocSize(heap, OnlyElem) = 0
    /\ result = <<"(", "{", "N", "u", "l", "l", "}", ")">>

----------------------------------------------------------------------------
(* The progress bar.  A client parses a text without the bar, keeps what   *)
(* the call returned, and parses the same text again with the bar shown.   *)

\* doc1 = string_to_doc(text, false) has returned; string_to_doc(text, true)
\* is entered with fresh locals
CallWithBar ==
    /\ pc = "done"
    /\ ~show_bar
    /\ last' = [ok |-> ~oob, ret |-> res, heap |-> heap]
    /\ show_bar' = TRUE
    /\ percentage' = 0
    /\ pc' = "start"
    /\ heap' = <<>>
    /\ oob' = FALSE
    /\ count' = 0
    /\ ge_stk' = <<>>
    /\ res' = DocNull
    /\ UNCHANGED <<input, docs, strVars>>

BarNext == ParseNext \/ CallWithBar

SpecBar == ParseInit /\ [][BarNext]_vars

\* the call with the bar shown has returned and neither call read outside
\* the text
BothReturned == pc = "done" /\ show_bar /\ ~oob /\ last.ok

\* C23: progress reporting is advisory.  When string_to_doc(text, false) and
\* string_to_doc(text, true) have both returned, the two documents are equal,
\* container for container; and a step that reaches progressBar.update()
\* moves the cursor, the frame stack and the containers exactly as the same
\* step does without the bar, the length of the text staying what it was.
C23_BarAdvisory ==
    /\ [](BothReturned => (res = last.ret /\ heap = last.heap))
    /\ [][show_bar /\ percentage' # percentage =>
            /\ input' = input
            /\ percentage' = NewPercentage(count', Len(input))
            /\ pc' # "abort"]_vars

\* the text [[1] parsed twice: the bar ends at 100 percent and both calls
\* return the root Array holding the inner Array
C23_Witness ==
    /\ BothReturned
    /\ input = <<"[", "[", "1", "]">>
    /\ percentage = 100
    /\ res.t = "Array"
    /\ Len(heap) = 2

----------------------------------------------------------------------------
(* Tuples.  Doc a is made a Tuple and filled by set_values with Doc(7),    *)
(* Doc(true) and the Array b; its elements are then reached by indexing.   *)

\* x(index).get_arr().emplace_back(v): operator() returns a const Doc&, and
\* get_arr() is a const member that returns DocArr&
ElemEmplace(x, index, v) ==
    /\ pc = "idle"
    /\ docs[x].t = "Tuple"
    /\ DocAt(heap, docs[x], index).err = "none"
    /\ DocAt(heap, docs[x], index).elem.t = "Array"
    /\ DocSize(heap, DocAt(heap, docs[x], index).elem) < MaxElems
    /\ heap' = DocEmplaceBack(heap, DocAt(heap, docs[x], index).elem, v).heap
    /\ oob' = (oob \/ DocEmplaceBack(heap, DocAt(heap, docs[x], index).elem, v).oob)
    /\ last' = Called(TRUE, FALSE)
    /\ UNCHANGED <<input, pc, count, ge_stk, res, docs, strVars, barVars>>

TupleNext ==
    \/ CtorType("a", "Tuple")
    \/ CtorType("b", "Array")
    \/ \E v \in {DocInt(7), DocBool(TRUE)} : EmplaceBack("b", v)
    \/ \E vals \in SeqsUpTo({DocInt(7), DocBool(TRUE), docs["b"]}, MaxElems) :
          SetValues("a", vals)
    \/ \E index \in 0..MaxElems : At("a", index)
    \/ \E index \in 0..MaxElems, v \in {DocInt(7), DocBool(TRUE)} :
          ElemEmplace("a", index, v)

SpecTuple == ApiInit /\ [][TupleNext]_vars

\* C24: a DocTuple is read-only through indexed access.  A call made through
\* the reference that indexing the tuple returns leaves the tree of values of
\* the tuple, which is what it returns and renders afterwards, as it was.
C24_ReadOnlyByIndex ==
    [][\A index \in 0..MaxElems, v \in {DocInt(7), DocBool(TRUE)} :
          ElemEmplace("a", index, v) =>
              TreeOf(heap', docs["a"]) = TreeOf(heap, docs["a"])]_vars

----------------------------------------------------------------------------
(* Conversions between DocArr and DocTuple.  Doc a holds the DocArr at     *)
(* address 1, Doc b the DocTuple at address 2; address 3 is the DocArr c   *)
(* that receives the result of to_arraylist.                               *)

ConvInit ==
    /\ heap = <<NewArr, NewTuple, NewArrCap(0)>>
    /\ oob = FALSE
    /\ input = <<>>
    /\ pc = "idle"
    /\ count = 0
    /\ ge_stk = <<>>
    /\ res = DocNull
    /\ docs = [x \in Names |-> IF x = "a" THEN DocPtr("Array", 1) ELSE DocPtr("Tuple", 2)]
    /\ last = Called(TRUE, FALSE)
    /\ visualize = FALSE
    /\ doc_stk = <<>>
    /\ char_stk = <<>>
    /\ result = <<>>
    /\ show_bar = FALSE
    /\ percentage = 0

\* the tuple at t is constructed anew from from.to_tuple()
TupleFromArr(t, from) ==
    /\ pc = "idle"
    /\ heap' = [heap EXCEPT ![t] = ArrToTuple(heap[from])]
    /\ oob' = (oob \/ CopyOob(heap[from].buf, heap[from].s))
    /\ last' = Called(TRUE, FALSE)
    /\ UNCHANGED <<input, pc, count, ge_stk, res, docs, strVars, barVars>>

\* the array at a is constructed anew from from.to_arraylist(), which throws
\* std::runtime_error when tpl == nullptr
ArrFromTuple(a, from) ==
    /\ pc = "idle"
    /\ heap' = IF heap[from].nul THEN heap ELSE [heap EXCEPT ![a] = TupleToArr(heap[from])]
    /\ last' = Called(~heap[from].nul, FALSE)
    /\ UNCHANGED <<oob, input, pc, count, ge_stk, res, docs, strVars, barVars>>

\* the array at a is constructed anew from from.to_tuple().to_arraylist()
ArrFromArr(a, from) ==
    /\ pc = "idle"
    /\ heap' = [heap EXCEPT ![a] = TupleToArr(ArrToTuple(heap[from]))]
    /\ oob' = (oob \/ CopyOob(heap[from].buf, heap[from].s))
    /\ last' = Called(TRUE, FALSE)
    /\ UNCHANGED <<input, pc, count, ge_stk, res, docs, strVars, barVars>>

\* DocTuple b; declared anew
TupleDefault(t) ==
    /\ pc = "idle"
    /\ heap' = [heap EXCEPT ![t] = NewTuple]
    /\ last' = Called(TRUE, FALSE)
    /\ UNCHANGED <<oob, input, pc, count, ge_stk, res, docs, strVars, barVars>>

ConvValues == {DocInt(7), DocBool(TRUE)}

ConvNext ==
    \/ \E v \in ConvValues : EmplaceBack("a", v)
    \/ PopBack("a")
    \/ \E vals \in SeqsUpTo(ConvValues, MaxElems) : SetValues("b", vals)
    \/ TupleDefault(2)
    \/ TupleFromArr(2, 1)
    \/ ArrFromTuple(3, 2)
    \/ ArrFromArr(3, 1)

SpecConv == ConvInit /\ [][ConvNext]_vars

\* the elements of a container, in order
Elems(o) == SubSeq(o.buf, 1, o.s)

\* C25: to_tuple returns a tuple with the size and the elements of the array,
\* in order; to_arraylist on a tuple that has a buffer returns an array with
\* the size and the elements of the tuple, in order, and throws on a tuple
\* without a buffer; to_tuple().to_arraylist() returns an array with the
\* elements of the array it started from; the source is left as it was.
C25_Interconversion ==
    /\ [][TupleFromArr(2, 1) =>
            /\ heap'[2].kind = "Tuple" /\ ~heap'[2].nul
            /\ heap'[2].s = heap[1].s
            /\ Elems(heap'[2]) = Elems(heap[1])
            /\ heap'[1] = heap[1]]_vars
    /\ [][ArrFromTuple(3, 2) =>
            IF heap[2].nul
            THEN ~last'.ok /\ heap' = heap
            ELSE /\ last'.ok
                 /\ heap'[3].kind = "Array"
                 /\ heap'[3].s = heap[2].s
                 /\ Elems(heap'[3]) = Elems(heap[2])
                 /\ heap'[2] = heap[2]]_vars
    /\ [][ArrFromArr(3, 1) =>
            /\ heap'[3].s = heap[1].s
            /\ Elems(heap'[3]) = Elems(heap[1])
            /\ heap'[1] = heap[1]]_vars

\* the array [7, true] converted to the tuple and the tuple to the array c:
\* all three hold 7 and true in that order, c with capacity 2
C25_Witness ==
    /\ Elems(heap[1]) = <<DocInt(7), DocBool(TRUE)>>
    /\ heap[2].s = 2 /\ Elems(heap[2]) = Elems(heap[1])
    /\ heap[3].cap = 2 /\ Elems(heap[3]) = Elems(heap[1])
    /\ last.ok

----------------------------------------------------------------------------
(* operator[] on a Dict *)

\* C26: operator[](key) on a Dict leaves the Dict as it was when an entry has
\* the text of key, and inserts one entry, a null document under key, when no
\* entry has that text, so that the size grows by exactly 1.
C26_IndexByText ==
    [][\A x \in Names, k \in ApiKeys :
          (Index(x, k) /\ docs[x].t = "Dict") =>
              IF SameText(heap[docs[x].n].m, k) # {}
              THEN /\ last'.ok
                   /\ heap' = heap
              ELSE /\ last'.ok
                   /\ DocSize(heap', docs[x]) = DocSize(heap, docs[x]) + 1
                   /\ heap'[docs[x].n].m[k] = DocNull]_vars

----------------------------------------------------------------------------
(* Where the scan of a primitive leaves the cursor *)

\* the characters that end a token in a frame of kind t
IsDelimiter(c, t) ==
    IsWs(c) \/ c = "," \/ c = NUL \/ c = (IF t = "Dict" THEN "}" ELSE "]")

\* one element or one value has been stored in the frame on top, which stays
\* on top, and no character outside the text was read
StoredOne ==
    /\ ArrElem \/ DictEntry
    /\ ge_stk' = ge_stk
    /\ pc' = "loop"
    /\ ~oob'

\* C27: whenever the scan of a primitive inside a container returns, the
\* cursor rests on a delimiter: whitespace, a comma, the closing bracket of
\* the frame, or the end of the text.
C27_ScanStopsAtDelimiter ==
    [][StoredOne => IsDelimiter(CharAt(input, count'), Top(ge_stk).t)]_vars

----------------------------------------------------------------------------
(* Texts in which the value of key "a", or the first element of an Array,  *)
(* is missing or garbled, and a well-formed sibling follows                *)

\* what stands where the first value should: nothing, a blank, garbage, or 1
FirstValues == {<<>>, <<" ">>, <<"x">>, <<"1", "x">>, <<"t", "r", "u">>, <<"1">>}

\* {"a":v,"b":1} and {"a":v, "b":1}
DictsWithSibling ==
    {<<"{">> \o KeyA \o v \o sep \o KeyB \o <<"1", "}">> :
        v \in FirstValues, sep \in {<<",">>, <<",", " ">>}}

RecoverTexts ==
    DictsWithSibling
    \cup {<<"[">> \o v \o <<",", "1", "]">> : v \in FirstValues \ {<<>>, <<" ">>}}
    \cup {<<"[">> \o t \o <<",", "1", "]">> : t \in DictsWithSibling}

RecoverInit ==
    /\ input \in RecoverTexts
    /\ heap = <<>>
    /\ oob = FALSE
    /\ pc = "start"
    /\ count = 0
    /\ ge_stk = <<>>
    /\ res = DocNull
    /\ docs = <<>>
    /\ last = <<>>
    /\ visualize = FALSE
    /\ doc_stk = <<>>
    /\ char_stk = <<>>
    /\ result = <<>>
    /\ show_bar = FALSE
    /\ percentage = 0

\* the steps string_to_doc takes on these texts
RecoverNext ==
    \/ ParseOpenRoot
    \/ SkipSpace
    \/ SkipComma
    \/ CloseFrame
    \/ DictEntry
    \/ ArrElem
    \/ LoopExit
    \/ ParseFinish

SpecRecover == RecoverInit /\ [][RecoverNext]_vars

\* the Dict d holds the entry "b": 1
HasSibling(d) ==
    /\ d.t = "Dict"
    /\ \E k \in DOMAIN heap[d.n].m : k.s = <<"b">> /\ heap[d.n].m[k] = DocInt(1)

\* C28: a missing or garbled value is replaced by null for that element only:
\* the well-formed sibling that follows it in the text of the same container,
\* the entry "b": 1 of a Dict and the element 1 of an Array, is in the result.
C28_SiblingsSurvive ==
    pc = "done" =>
        IF res.t = "Dict" THEN HasSibling(res)
        ELSE /\ res.t = "Array"
             /\ heap[res.n].s = 2
             /\ heap[res.n].buf[2] = DocInt(1)
             /\ input[2] = "{" => HasSibling(heap[res.n].buf[1])

----------------------------------------------------------------------------
(* The cursor and the text *)

\* C29: every character the parser reads is at an index in 0..n, n being the
\* length of the text and index n its terminating NUL: the parser has read
\* nothing outside the text and the cursor never exceeds n.
C29_ReadsWithinText ==
    /\ ~oob
    /\ count <= Len(input)

----------------------------------------------------------------------------
(* The key range of a Dict entry *)

\* the main loop is about to read an entry of a Dict frame whose ':' exists,
\* so that the key buffer is allocated and filled
AtKeyCopy ==
    /\ InLoop
    /\ IsElemStart(CharAt(input, count))
    /\ Top(ge_stk).t = "Dict"
    /\ FindColon(input, count + 1) < Len(input)

\* C30: where the key buffer is allocated and the key copied, left <= right:
\* the length of the key is not negative.
C30_KeyRangeWellFormed ==
    AtKeyCopy =>
        KeyLeft(input, count) <= KeyRight(input, count, FindColon(input, count + 1))

----------------------------------------------------------------------------
(* The buffer of a DocArr *)

\* C31: every read or write of the buffer of a DocArr made by emplace_back,
\* pop_back, set_value, set_values, resize and operator[] is at an index
\* below the capacity of the buffer: no call has reached outside it.
C31_BufferSafety == oob = FALSE

----------------------------------------------------------------------------
(* The restricted round trip: trees of null, booleans, Ints of at most 9   *)
(* digits, strings without a double quote, Arrays, and Dicts whose keys    *)
(* differ in text and hold neither a double quote nor a colon.             *)

MaxItems == 2

\* values of the restricted kinds; the strings and keys hold the characters
\* that delimit tokens for the parser
PlainLeaves ==
    {Leaf(DocNull), Leaf(DocBool(TRUE)), Leaf(DocBool(FALSE)), Leaf(DocInt(-7)),
     Leaf(DocInt(999999999)), Leaf(DocStr(<<>>)), Leaf(DocStr(<<",", "]">>)),
     Leaf(DocStr(<<":", "}">>))}

PlainKeys == {Key(1, <<"k">>), Key(2, <<",", "}">>), Key(3, <<" ">>)}

\* key sequences in the order of their buffers, without repetition
PlainKeySeqs(k) ==
    {q \in SeqsUpTo(PlainKeys, k) : \A i \in 1..Len(q) : i > 1 => q[i - 1].p < q[i].p}

PlainContainers(S, k) ==
    {Node("Array", q, <<>>) : q \in SeqsUpTo(S, k)}
    \cup {Node("Dict", q, ks) :
            <<q, ks>> \in {c \in SeqsUpTo(S, k) \X PlainKeySeqs(k) : Len(c[1]) = Len(c[2])}}

\* a tree put into one more container beside a sibling
PlainNest(S) ==
    {Node("Array", <<t, Leaf(DocInt(7))>>, <<>>) : t \in S}
    \cup {Node("Dict", <<Leaf(DocStr(<<":">>)), t>>, <<Key(1, <<"k">>), Key(2, <<",", "}">>)>>) :
            t \in S}

PlainTrees ==
    PlainLeaves
    \cup PlainContainers(PlainLeaves, MaxItems)
    \cup PlainNest(PlainContainers(PlainLeaves, MaxItems))

\* Doc a holds a restricted tree; b stays null
PlainInit ==
    /\ \E tree \in PlainTrees :
           /\ heap = Build(<<>>, tree).heap
           /\ docs = [x \in Names |-> IF x = "a" THEN Build(<<>>, tree).doc ELSE DocNull]
    /\ oob = FALSE
    /\ input = <<>>
    /\ pc = "idle"
    /\ count = 0
    /\ ge_stk = <<>>
    /\ res = DocNull
    /\ last = Called(TRUE, FALSE)
    /\ visualize = FALSE
    /\ doc_stk = <<>>
    /\ char_stk = <<>>
    /\ result = <<>>
    /\ show_bar = FALSE
    /\ percentage = 0

SpecPlain == PlainInit /\ [][RoundTripNext]_vars

\* C32: for a restricted tree a, string_to_doc(a.str(false)) runs without a
\* fault or a malformed-input path and returns a tree with the kinds, the
\* values and the structure of a, Dict entries being compared by key text
\* whatever their order.
C32_RestrictedRoundTrip ==
    /\ ~oob
    /\ pc \notin {"abort", "final"}
    /\ pc = "done" => TreeOf(heap, res) = TreeOf(heap, docs["a"])

\* the Dict {"k": ":", ",}": [",]", 999999999]} has been rendered and parsed
\* back into new containers
C32_Witness ==
    /\ pc = "done"
    /\ res # docs["a"]
    /\ TreeOf(heap, res) = TreeOf(heap, docs["a"])
    /\ docs["a"].t = "Dict"
    /\ \E k \in DOMAIN heap[docs["a"].n].m :
           /\ k.s = <<",", "}">>
           /\ heap[docs["a"].n].m[k].t = "Array"
           /\ Elems(heap[heap[docs["a"].n].m[k].n]) = <<DocStr(<<",", "]">>), DocInt(999999999)>>

----------------------------------------------------------------------------
(* The brackets of a rendered text, read outside its quoted tokens *)

\* keys and strings holding brackets, and a key holding a double quote
BracketKeys == {Key(1, <<"k", "]">>), Key(2, <<"a", QUOTE, "[">>)}

BracketLeaves ==
    {Leaf(DocInt(7)), Leaf(DocStr(<<"[", QUOTE, "}">>)),
     Node("Array", <<>>, <<>>), Node("Tuple", <<>>, <<>>), Node("Dict", <<>>, <<>>)}

BracketContainers(S, k) ==
    {Node("Array", q, <<>>) : q \in SeqsUpTo(S, k)}
    \cup {Node("Tuple", q, <<>>) : q \in SeqsUpTo(S, k)}
    \cup {Node("Dict", q, ks) :
            <<q, ks>> \in {c \in SeqsUpTo(S, k) \X SeqsUpTo(BracketKeys, k) :
                             /\ Len(c[1]) = Len(c[2])
                             /\ \A i \in 1..Len(c[2]) : i > 1 => c[2][i - 1].p < c[2][i].p}}

BracketTrees == Nested(MaxNest, BracketLeaves \cup BracketContainers(BracketLeaves, MaxKids))

BracketInit ==
    /\ \E tree \in BracketTrees :
           /\ heap = Build(<<>>, tree).heap
           /\ docs = [x \in Names |-> IF x = "a" THEN Build(<<>>, tree).doc ELSE DocNull]
    /\ oob = FALSE
    /\ input = <<>>
    /\ pc = "idle"
    /\ count = 0
    /\ ge_stk = <<>>
    /\ res = DocNull
    /\ last = Called(TRUE, FALSE)
    /\ visualize = FALSE
    /\ doc_stk = <<>>
    /\ char_stk = <<>>
    /\ result = <<>>
    /\ show_bar = FALSE
    /\ percentage = 0

SpecBrackets == BracketInit /\ [][SpellNext]_vars

\* the bracket that closes an opening bracket
Mate(c) == IF c = "{" THEN "}" ELSE IF c = "[" THEN "]" ELSE ")"

\* a reader of the text from position i: quoted tokens are skipped, an
\* opening bracket is pushed, a closing bracket must be the mate of the
\* last one still open; stk holds the closing brackets owed, n counts the
\* opening brackets met
RECURSIVE Brackets(_, _, _, _, _)
Brackets(text, i, quoted, stk, n) ==
    IF i > Len(text) THEN [ok |-> ~quoted, stk |-> stk, n |-> n]
    ELSE IF text[i] = QUOTE THEN Brackets(text, i + 1, ~quoted, stk, n)
    ELSE IF quoted THEN Brackets(text, i + 1, quoted, stk, n)
    ELSE IF text[i] \in {"{", "[", "("}
    THEN Brackets(text, i + 1, quoted, Append(stk, Mate(text[i])), n + 1)
    ELSE IF text[i] \in {"}", "]", ")"}
    THEN IF stk # <<>> /\ Top(stk) = text[i]
         THEN Brackets(text, i + 1, quoted, Pop(stk), n)
         ELSE [ok |-> FALSE, stk |-> stk, n |-> n]
    ELSE Brackets(text, i + 1, quoted, stk, n)

BracketsOf(text) == Brackets(text, 1, FALSE, <<>>, 0)

\* the texts of the elements i.. of a list of leaves, in index order
RECURSIVE InOrder(_, _, _, _)
InOrder(h, o, vis, i) ==
    IF i > o.s THEN <<>>
    ELSE LeafText(h, o.buf[i], vis)
         \o (IF i < o.s THEN <<",", " ">> ELSE <<>>)
         \o InOrder(h, o, vis, i + 1)

\* Doc a is a non-empty Tuple or Array of primitives and void containers
FlatList ==
    /\ docs["a"].t \in {"Tuple", "Array"}
    /\ DocSize(heap, docs["a"]) > 0
    /\ \A i \in 1..heap[docs["a"].n].s : IsLeaf(heap, heap[docs["a"].n].buf[i])

\* C33: at every point of a rendering of a document tree, in both modes,
\* the brackets of the text outside its quoted tokens are properly nested
\* with mates of the same type, and the ones still open are exactly the
\* ones char_stk owes; when the rendering ends char_stk is empty and the
\* text shows one pair of brackets per container (a void container being
\* spelt with its own pair); the elements of a Tuple or an Array appear in
\* index order.
C33_BracketBalance ==
    pc = "str" =>
        /\ BracketsOf(result).ok
        /\ BracketsOf(result).stk = char_stk
        /\ Rendered =>
               /\ char_stk = <<>>
               /\ BracketsOf(result).n = Len(heap)
               /\ FlatList =>
                      result = (IF visualize /\ docs["a"].t = "Tuple" THEN <<"(">> ELSE <<"[">>)
                               \o InOrder(heap, heap[docs["a"].n], visualize, 1)
                               \o (IF visualize /\ docs["a"].t = "Tuple" THEN <<")">> ELSE <<"]">>)

----------------------------------------------------------------------------
(* operator<<(std::ostream&, const Doc&), compared with Doc::str(false) *)

\* get_indents(i): 2 * i blanks, those of level 15 from level 16 on
Indent(i) == [j \in 1..(2 * (IF i < 16 THEN i ELSE 15)) |-> " "]

\* a digit sequence without its trailing zeros
RECURSIVE NoTrailingZeros(_)
NoTrailingZeros(ds) ==
    IF ds # <<>> /\ ds[Len(ds)] = "0" THEN NoTrailingZeros(SubSeq(ds, 1, Len(ds) - 1)) ELSE ds

\* the six significant digits operator<< keeps of a floating value; digits
\* beyond the sixth are cut off here, where the stream rounds
SixSignificant(digits) ==
    NoTrailingZeros(IF Len(digits) > 6 THEN SubSeq(digits, 1, 6) ELSE digits)

\* stream << value for a float, double or long double: the general format
\* of precision 6, the exponent of the first digit being Len(digits) - 1 + e
GeneralText(sign, digits, e) ==
    IF digits = <<>> THEN SignText(sign) \o <<"0">>
    ELSE IF Len(digits) - 1 + e < -4 \/ Len(digits) - 1 + e >= 6
    THEN SignText(sign) \o <<SixSignificant(digits)[1]>>
         \o (IF Len(SixSignificant(digits)) > 1
             THEN <<".">> \o Tail(SixSignificant(digits)) ELSE <<>>)
         \o <<"e">> \o ExpText(Len(digits) - 1 + e)
    ELSE IF Len(digits) - 1 + e < 0
    THEN SignText(sign) \o <<"0", ".">> \o Zeros(0 - (Len(digits) + e)) \o SixSignificant(digits)
    ELSE IF Len(SixSignificant(digits)) <= Len(digits) + e
    THEN SignText(sign) \o SixSignificant(digits)
         \o Zeros(Len(digits) + e - Len(SixSignificant(digits)))
    ELSE SignText(sign) \o SubSeq(SixSignificant(digits), 1, Len(digits) + e)
         \o <<".">>
         \o SubSeq(SixSignificant(digits), Len(digits) + e + 1, Len(SixSignificant(digits)))

\* the switch on doc.t: the characters of a string are written as they are
StreamPrim(d) ==
    CASE d.t = "Char" -> IntToString(d.n)
      [] d.t = "Int" -> IntToString(d.n)
      [] d.t = "LLong" -> (IF d.s = <<>> THEN <<>> ELSE SignText(d.n)) \o Magnitude(d.s)
      [] d.t \in {"Float", "Double", "LDouble"} -> GeneralText(d.n, d.s, d.e)
      [] d.t = "Bool" ->
            IF d.n = 1 THEN <<"t", "r", "u", "e">> ELSE <<"f", "a", "l", "s", "e">>
      [] d.t = "Nullptr" -> <<"n", "u", "l", "l">>
      [] d.t = "Str" -> <<QUOTE>> \o d.s \o <<QUOTE>>
      [] OTHER -> <<>>

\* the text of a primitive or of a void container
StreamLeafText(h, doc) ==
    IF DocSize(h, doc) = 1 \/ doc.t = "Nullptr" THEN StreamPrim(doc)
    ELSE IF doc.t = "Dict" THEN <<"{", "}">>
    ELSE <<"[", "]">>

\* --lvl; if (char_stk.top() == '}') stream << '\n' << get_indents(lvl);
\* stream << char_stk.top()
StreamCloser(c, lvl) == (IF c = "}" THEN <<"\n">> \o Indent(lvl) ELSE <<>>) \o <<c>>

\* "all docs are pushed to string"
RECURSIVE StreamCloseAll(_, _)
StreamCloseAll(cs, lvl) ==
    IF cs = <<>> THEN <<>>
    ELSE StreamCloser(Top(cs), lvl - 1) \o StreamCloseAll(Pop(cs), lvl - 1)

\* "not the last"
StreamSeparator(lvl, down_lvl, str) ==
    IF lvl = down_lvl
    THEN <<",", " ">> \o (IF str # <<>> THEN <<"\n">> \o Indent(lvl) ELSE <<>>)
    ELSE <<>>

\* "this level is finished"
RECURSIVE StreamUnwind(_, _, _, _)
StreamUnwind(lvl, down_lvl, cs, text) ==
    IF lvl > down_lvl /\ cs # <<>>
    THEN StreamUnwind(lvl - 1, down_lvl, Pop(cs),
                      text \o StreamCloser(Top(cs), lvl - 1)
                           \o (IF lvl - 1 = down_lvl
                               THEN <<",", "\n">> \o Indent(lvl - 1) ELSE <<>>))
    ELSE [text |-> text, char_stk |-> cs]

StreamAfterLeaf(it, rest, cs) ==
    IF rest = <<>> THEN [text |-> StreamCloseAll(cs, it.lvl), char_stk |-> <<>>]
    ELSE StreamUnwind(it.lvl, Top(rest).lvl, cs,
                      StreamSeparator(it.lvl, Top(rest).lvl, it.str))

\* stream << x: doc_stk.emplace(&document, "", 0); result is the stream
StreamCall(x) ==
    /\ pc = "idle"
    /\ pc' = "out"
    /\ visualize' = FALSE
    /\ doc_stk' = <<Item(docs[x], <<>>, 0)>>
    /\ char_stk' = <<>>
    /\ result' = <<>>
    /\ UNCHANGED <<heap, oob, input, count, ge_stk, res, docs, last, barVars>>

\* an iteration of the loop on a primitive or a void container
StreamLeaf ==
    /\ pc = "out"
    /\ doc_stk # <<>>
    /\ IsLeaf(heap, Top(doc_stk).doc)
    /\ result' = result \o Top(doc_stk).str
                        \o StreamLeafText(heap, Top(doc_stk).doc)
                        \o StreamAfterLeaf(Top(doc_stk), Pop(doc_stk), char_stk).text
    /\ char_stk' = StreamAfterLeaf(Top(doc_stk), Pop(doc_stk), char_stk).char_stk
    /\ doc_stk' = Pop(doc_stk)
    /\ UNCHANGED <<heap, oob, input, pc, count, ge_stk, res, docs, last, visualize, barVars>>

\* an iteration of the loop on a non-empty Tuple or Array
StreamList ==
    /\ pc = "out"
    /\ doc_stk # <<>>
    /\ ~IsLeaf(heap, Top(doc_stk).doc)
    /\ Top(doc_stk).doc.t \in {"Tuple", "Array"}
    /\ result' = result \o Top(doc_stk).str \o <<"[">>
    /\ char_stk' = Append(char_stk, "]")
    /\ doc_stk' = Pop(doc_stk) \o ListItems(heap[Top(doc_stk).doc.n], Top(doc_stk).lvl + 1)
    /\ UNCHANGED <<heap, oob, input, pc, count, ge_stk, res, docs, last, visualize, barVars>>

\* an iteration of the loop on a non-empty Dict
StreamDict ==
    /\ pc = "out"
    /\ doc_stk # <<>>
    /\ ~IsLeaf(heap, Top(doc_stk).doc)
    /\ Top(doc_stk).doc.t = "Dict"
    /\ result' = result \o Top(doc_stk).str \o <<"{", "\n">> \o Indent(Top(doc_stk).lvl + 1)
    /\ char_stk' = Append(char_stk, "}")
    /\ \E f \in Orders(DOMAIN heap[Top(doc_stk).doc.n].m) :
           doc_stk' = Pop(doc_stk)
                      \o DictItems(heap[Top(doc_stk).doc.n].m, f, Top(doc_stk).lvl + 1)
    /\ UNCHANGED <<heap, oob, input, pc, count, ge_stk, res, docs, last, visualize, barVars>>

\* return stream; the caller keeps what was written
StreamReturn ==
    /\ pc = "out"
    /\ doc_stk = <<>>
    /\ pc' = "idle"
    /\ last' = Called(TRUE, result)
    /\ UNCHANGED <<heap, oob, input, count, ge_stk, res, docs, strVars, barVars>>

\* documents without floating values; a Dict has one entry at most, so that
\* both renderers meet its entries in the same order
StreamLeaves ==
    {Leaf(DocNull), Leaf(DocBool(TRUE)), Leaf(DocChar(65)), Leaf(DocInt(-7)),
     Leaf(DocLLong(-1, <<"1", "2", "3", "4", "5", "6", "7", "8", "9", "0">>)),
     Leaf(DocStr(<<"a", " ", "[">>)), Leaf(DocStr(<<"a", QUOTE>>)),
     Node("Array", <<>>, <<>>), Node("Tuple", <<>>, <<>>), Node("Dict", <<>>, <<>>)}

StreamNest(S) ==
    {Node("Tuple", <<t>>, <<>>) : t \in S}
    \cup {Node("Array", <<t, Leaf(DocInt(7))>>, <<>>) : t \in S}
    \cup {Node("Array", <<Leaf(DocInt(7)), t>>, <<>>) : t \in S}
    \cup {Node("Dict", <<t>>, <<Key(1, <<"k", " ">>)>>) : t \in S}

RECURSIVE StreamTrees(_)
StreamTrees(k) == IF k = 0 THEN StreamLeaves ELSE StreamTrees(k - 1) \cup StreamNest(StreamTrees(k - 1))

StreamInit ==
    /\ \E tree \in StreamTrees(MaxDepth) :
           /\ heap = Build(<<>>, tree).heap
           /\ docs = [x \in Names |-> IF x = "a" THEN Build(<<>>, tree).doc ELSE DocNull]
    /\ oob = FALSE
    /\ input = <<>>
    /\ pc = "idle"
    /\ count = 0
    /\ ge_stk = <<>>
    /\ res = DocNull
    /\ last = Called(FALSE, <<>>)
    /\ visualize = FALSE
    /\ doc_stk = <<>>
    /\ char_stk = <<>>
    /\ result = <<>>
    /\ show_bar = FALSE
    /\ percentage = 0

\* std::cout << a; then a.str(false)
StreamNext ==
    \/ (~last.ok /\ StreamCall("a"))
    \/ StreamLeaf
    \/ StreamList
    \/ StreamDict
    \/ StreamReturn
    \/ (last.ok /\ StrCall("a", FALSE))
    \/ StrLeaf
    \/ StrList
    \/ StrDict

SpecStream == StreamInit /\ [][StreamNext]_vars

\* the text without the blanks and line breaks outside its quoted tokens
RECURSIVE Squeezed(_, _, _)
Squeezed(text, i, quoted) ==
    IF i > Len(text) THEN <<>>
    ELSE IF text[i] = QUOTE THEN <<QUOTE>> \o Squeezed(text, i + 1, ~quoted)
    ELSE IF ~quoted /\ text[i] \in {" ", "\n"} THEN Squeezed(text, i + 1, quoted)
    ELSE <<text[i]>> \o Squeezed(text, i + 1, quoted)

\* C34: for a document tree without floating values, what operator<< wrote
\* and what str(false) returns are the same text once the blanks and line
\* breaks outside the quoted tokens are deleted.
C34_StreamEqualsPlain ==
    (Rendered /\ last.ok) => Squeezed(last.ret, 1, FALSE) = Squeezed(result, 1, FALSE)

----------------------------------------------------------------------------
(* The token Doc::str writes for a string *)

MaxStr == 3

\* the strings of at most MaxStr characters over a letter and the two quotes
QuoteStrings == SeqsUpTo({"a", QUOTE, "'"}, MaxStr)

\* a string alone, as the element of an Array or a Tuple, as a Dict value
QuoteTrees ==
    {Leaf(DocStr(s)) : s \in QuoteStrings}
    \cup {Node(t, <<Leaf(DocStr(s))>>, <<>>) : t \in {"Array", "Tuple"}, s \in QuoteStrings}
    \cup {Node("Dict", <<Leaf(DocStr(s))>>, <<Key(1, <<"k">>)>>) : s \in QuoteStrings}

QuoteInit ==
    /\ \E tree \in QuoteTrees :
           /\ heap = Build(<<>>, tree).heap
           /\ docs = [x \in Names |-> IF x = "a" THEN Build(<<>>, tree).doc ELSE DocNull]
    /\ oob = FALSE
    /\ input = <<>>
    /\ pc = "idle"
    /\ count = 0
    /\ ge_stk = <<>>
    /\ res = DocNull
    /\ last = Called(TRUE, FALSE)
    /\ visualize = FALSE
    /\ doc_stk = <<>>
    /\ char_stk = <<>>
    /\ result = <<>>
    /\ show_bar = FALSE
    /\ percentage = 0

SpecQuote == QuoteInit /\ [][SpellNext]_vars

\* the string held by Doc a, by its only element or under its only key
TheString ==
    IF docs["a"].t = "Str" THEN docs["a"].s
    ELSE IF docs["a"].t = "Dict" THEN heap[docs["a"].n].m[Key(1, <<"k">>)].s
    ELSE OnlyElem.s

\* the text between what precedes the value and what follows it: a bracket
\* on each side in a list; the opening line and the key before, the closing
\* line after, in a Dict
TheToken ==
    IF docs["a"].t = "Str" THEN result
    ELSE IF docs["a"].t = "Dict" THEN SubSeq(result, 8, Len(result) - 2)
    ELSE SubSeq(result, 2, Len(result) - 1)

\* C35: in both modes a string is rendered as a token that starts and ends
\* with a double quote and holds between them the characters of the string
\* in order, every double quote of the string being replaced by a single
\* quote: the token holds two double quotes exactly.
C35_StringToken ==
    Rendered =>
        /\ Len(TheToken) = Len(TheString) + 2
        /\ TheToken[1] = QUOTE
        /\ TheToken[Len(TheToken)] = QUOTE
        /\ Cardinality({i \in 1..Len(TheToken) : TheToken[i] = QUOTE}) = 2
        /\ \A i \in 1..Len(TheString) :
               TheToken[i + 1] = IF TheString[i] = QUOTE THEN "'" ELSE TheString[i]

\* the string a"' has been rendered in visualized mode as the value of a Dict
C35_Witness ==
    /\ Rendered
    /\ visualize
    /\ docs["a"].t = "Dict"
    /\ TheString = <<"a", QUOTE, "'">>
    /\ TheToken = <<QUOTE, "a", "'", "'", QUOTE>>

----------------------------------------------------------------------------
(* The two renderings of an integer *)

MaxSmall == 12

\* magnitudes with one to four groups of digits
Magnitudes == 0..MaxSmall \cup {99, 100, 999, 1000, 123456, 1234567, 2147483647}

\* Int and LLong values of both signs, the least of each type among them
IntDocs ==
    {DocInt(v) : v \in Magnitudes} \cup {DocInt(0 - v) : v \in Magnitudes}
    \cup {DocInt(INT_MIN)}
    \cup {DocLLong(sign, ToDigits(v)) : sign \in {1, -1}, v \in Magnitudes \ {0}}
    \cup {DocLLong(1, <<>>), DocLLong(1, Tail(LLongMinDigits)), DocLLong(-1, LLongMinDigits)}

IntInit ==
    /\ heap = <<>>
    /\ docs \in [Names -> IntDocs]
    /\ docs["b"] = DocInt(0)
    /\ oob = FALSE
    /\ input = <<>>
    /\ pc = "idle"
    /\ count = 0
    /\ ge_stk = <<>>
    /\ res = DocNull
    /\ last = Called(FALSE, <<>>)
    /\ visualize = FALSE
    /\ doc_stk = <<>>
    /\ char_stk = <<>>
    /\ result = <<>>
    /\ show_bar = FALSE
    /\ percentage = 0

\* std::string plain = a.str(false): the caller keeps the text returned
StrKeep ==
    /\ pc = "str"
    /\ doc_stk = <<>>
    /\ pc' = "idle"
    /\ last' = Called(TRUE, result)
    /\ UNCHANGED <<heap, oob, input, count, ge_stk, res, docs, strVars, barVars>>

\* a.str(false), then a.str(true)
IntNext ==
    \/ (~last.ok /\ StrCall("a", FALSE))
    \/ StrLeaf
    \/ (~last.ok /\ StrKeep)
    \/ (last.ok /\ StrCall("a", TRUE))

SpecInt == IntInit /\ [][IntNext]_vars

\* the text without its "_"
RECURSIVE Ungrouped(_)
Ungrouped(text) ==
    IF text = <<>> THEN <<>>
    ELSE (IF text[1] = "_" THEN <<>> ELSE <<text[1]>>) \o Ungrouped(Tail(text))

\* digits in groups of three counted from the right, a "_" between two
\* groups, the leading group of one to three digits
Grouped(body) ==
    /\ body # <<>>
    /\ \A i \in 1..Len(body) :
           IF (Len(body) - i) % 4 = 3 THEN body[i] = "_" /\ i > 1
           ELSE body[i] \in DigitSet

\* C36: for every Int and LLong value, str(true) is an optional single "-"
\* followed by the digits of the magnitude in groups of three counted from
\* the right with "_" between the groups, and deleting the "_" from it gives
\* the text of str(false).
C36_GroupedDigits ==
    (Rendered /\ visualize /\ last.ok) =>
        /\ Grouped(IF result[1] = "-" THEN Tail(result) ELSE result)
        /\ Ungrouped(result) = last.ret

----------------------------------------------------------------------------
(* emplace_back and pop_back as a stack *)

LifoValues == {DocInt(7), DocBool(TRUE), DocStr(<<"k">>)}

\* a.emplace_back(d)
EmplaceOf(a, d) ==
    /\ pc = "idle"
    /\ IsArr(a)
    /\ heap[a].s <= MaxElems
    /\ heap' = [heap EXCEPT ![a] = ArrEmplaceBack(@, d).o]
    /\ oob' = (oob \/ ArrEmplaceBack(heap[a], d).oob)
    /\ last' = Called(TRUE, FALSE)
    /\ UNCHANGED <<input, pc, count, ge_stk, res, docs, strVars, barVars>>

\* DocArr a; DocArr b(c); pushes of several values and pops on either
LifoNext ==
    \/ \E a \in 1..Len(heap), d \in LifoValues : EmplaceOf(a, d)
    \/ \E a \in 1..Len(heap) : ArrPop(a)

SpecLifo == CapInit /\ [][LifoNext]_vars

\* the size and the elements of o are those of p
SameElems(o, p) ==
    /\ o.s = p.s
    /\ o.s <= Len(o.buf)
    /\ p.s <= Len(p.buf)
    /\ Elems(o) = Elems(p)

\* C37: emplace_back(d) makes the size one more, stores d as the last
\* element and leaves the elements below the old size as they were, also
\* when the buffer is reallocated; a pop_back that returns true removes the
\* last element and no other; emplace_back(d) followed at once by pop_back()
\* gives back the size and the elements the array had.
C37_Lifo ==
    /\ [][\A a \in 1..Len(heap), d \in LifoValues :
             EmplaceOf(a, d) =>
                 /\ heap'[a].s = heap[a].s + 1
                 /\ heap'[a].s <= Len(heap'[a].buf)
                 /\ heap'[a].buf[heap'[a].s] = d
                 /\ \A i \in 1..heap[a].s : heap'[a].buf[i] = heap[a].buf[i]]_vars
    /\ [][\A a \in 1..Len(heap) :
             (ArrPop(a) /\ heap[a].s > 0 /\ heap[a].s <= Len(heap[a].buf)) =>
                 /\ heap'[a].s = heap[a].s - 1
                 /\ Elems(heap'[a]) = SubSeq(Elems(heap[a]), 1, heap[a].s - 1)]_vars
    /\ [](\A a \in 1..Len(heap), d \in LifoValues :
             heap[a].s <= Len(heap[a].buf) =>
                 SameElems(ArrPopBack(ArrEmplaceBack(heap[a], d).o).o, heap[a]))

----------------------------------------------------------------------------
(* The accumulators of the numeric scan *)

MaxScan == 17

\* digit strings longer than MaxScan: around 2^53, all nines, counting up,
\* leading zeros, around the largest int
LongDigits ==
    {<<"9", "0", "0", "7", "1", "9", "9", "2", "5", "4", "7", "4", "0", "9", "9", "3", "1", "1", "1">>,
     <<"9", "0", "0", "7", "1", "9", "9", "2", "5", "4", "7", "4", "0", "9", "9", "5", "1", "1", "1">>,
     <<"9", "0", "0", "7", "1", "9", "9", "2", "5", "4", "7", "4", "0", "9", "9", "2", "1", "1", "1">>,
     [i \in 1..19 |-> "9"],
     Counting(19),
     <<"0", "0", "0">> \o Counting(16),
     <<"2", "1", "4", "7", "4", "8", "3", "6", "4", "8", "9", "9", "9", "9", "9", "9", "9", "9", "9">>}

\* a sign, the first n digits of a string, and a point, an exponent or nothing
ScanLiterals ==
    {sg \o SubSeq(ds, 1, n) \o tl :
        sg \in {<<>>, <<"-">>}, ds \in LongDigits, n \in 1..MaxScan,
        tl \in {<<>>, <<".">>, <<"e", "0">>}}

ScanInit ==
    /\ input \in ScanLiterals
    /\ heap = <<>>
    /\ oob = FALSE
    /\ pc = "start"
    /\ count = 0
    /\ ge_stk = <<>>
    /\ res = DocNull
    /\ docs = <<>>
    /\ last = <<>>
    /\ visualize = FALSE
    /\ doc_stk = <<>>
    /\ char_stk = <<>>
    /\ result = <<>>
    /\ show_bar = FALSE
    /\ percentage = 0

SpecScan == ScanInit /\ [][ParsePrimRoot]_vars

\* the digits a text starts with
RECURSIVE LeadingDigits(_)
LeadingDigits(text) ==
    IF text # <<>> /\ text[1] \in DigitSet THEN <<text[1]>> \o LeadingDigits(Tail(text)) ELSE <<>>

\* the digits of the literal before its point or exponent
Mantissa(text) == LeadingDigits(Unsigned(text))

RECURSIVE NoLeadingZeros(_)
NoLeadingZeros(ds) == IF ds # <<>> /\ ds[1] = "0" THEN NoLeadingZeros(Tail(ds)) ELSE ds

\* the value of the first n digits of the literal, as a digit sequence
ValueOf(text, n) ==
    NoLeadingZeros(SubSeq(Mantissa(text), 1, IF n < Len(Mantissa(text)) THEN n ELSE Len(Mantissa(text))))

\* the scan of the literal up to its n-th digit
Scanned(n) == ScanNumber(SubSeq(input, 1, Len(input) - Len(Unsigned(input)) + n), 0)

\* the accumulators never hold more than they can, whatever part of the
\* literal was read: at most 9 digits in int_val (so a value below 2^31), at
\* most 16 in long_val (so a value below 2^63); the tenth digit finds in
\* long_val the value int_val had
WithinWidth ==
    \A n \in 1..Len(Mantissa(input)) :
        /\ Scanned(n).t = "Int" =>
               /\ Scanned(n).len <= 9
               /\ Scanned(n).int_val >= 0 /\ Scanned(n).int_val <= 999999999
        /\ Scanned(n).t = "LLong" =>
               /\ Scanned(n).len <= 16
               /\ Len(Scanned(n).long_val) <= 16
        /\ n = 9 => WidenToLLong(Scanned(n)).long_val = ValueOf(input, 9)
        /\ n = 10 => Scanned(n).t = "LLong" /\ Scanned(n).long_val = ValueOf(input, 10)

\* the digits are followed by a point or an exponent
HasTail == Len(Mantissa(input)) < Len(Unsigned(input))

\* c is the double nearest to the integer v < 2^54: v itself up to 2^53 and
\* when v is even, else the neighbour of v that is a multiple of 4
NearestDouble(c, v) ==
    IF AtMost(v, TwoTo53) \/ ~IsOdd(v) THEN c = v
    ELSE c \in {OddPred(v), Succ(v)} /\ DivisibleBy4(c)

\* C38 as stated: the 32-bit accumulator receives at most 9 digits and stays
\* below 2^31, the 64-bit accumulator at most 16 digits and stays below 2^63,
\* and the value carried over from Int to LLong and from LLong to floating
\* equals the value accumulated so far.
C38_CarriedUnchanged ==
    pc = "done" =>
        /\ WithinWidth
        /\ (HasTail /\ Len(Mantissa(input)) \in 1..16) => res.s = ValueOf(input, 16)
        /\ Len(Mantissa(input)) >= 17 =>
               WidenToDouble(Scanned(16)).decimal = ValueOf(input, 16)

\* C38 as amended: the accumulators stay within their widths and the value
\* carried over from Int to LLong is the value accumulated so far; the value
\* carried over from LLong to floating, at the seventeenth digit, at a point
\* or at an exponent, is the double nearest to the value accumulated so far,
\* which is that value when it is at most 2^53 or even.
C38_CarriedNearest ==
    pc = "done" =>
        /\ WithinWidth
        /\ (HasTail /\ Len(Mantissa(input)) \in 1..16) =>
               NearestDouble(res.s, ValueOf(input, 16))
        /\ Len(Mantissa(input)) >= 17 =>
               NearestDouble(WidenToDouble(Scanned(16)).decimal, ValueOf(input, 16))

\* 9007199254740993. has been parsed to the Double 9007199254740992, and
\* 9007199254740995e0 would give 9007199254740996
C38_Witness ==
    /\ pc = "done"
    /\ input = <<"9", "0", "0", "7", "1", "9", "9", "2", "5", "4", "7", "4", "0", "9", "9", "3", ".">>
    /\ res = DocDouble(1, TwoTo53, 0)
    /\ ToDouble(Succ(Succ(Succ(TwoTo53)))) = Succ(Succ(Succ(Succ(TwoTo53))))

====
